---------------------------- MODULE Spec2Model ----------------------------
(***************************************************************************)
(* Model of md_to_conf's MarkdownConverter (src/md_to_conf/converter.py).  *)
(*                                                                         *)
(* Strings are sequences of tokens.  A token is one markup tag, one        *)
(* punctuation mark, one blank, one line break or one word; words hold no  *)
(* '<', '>' or blank, so Python's substring operations (str.replace,       *)
(* str.find, str.strip, re.findall) act on whole tokens.                   *)
(***************************************************************************)
EXTENDS Integers, Sequences, FiniteSets, TLC

VARIABLES
    fn,              \* the method being executed
    pc,              \* "loop" while it runs, then "returned" or "raised"
    err,             \* the exception raised ("" when none)
    editor_version,  \* MarkdownConverter.editor_version
    ref_prefix,      \* process_headers argument
    ref_postfix,     \* process_headers argument
    headers,         \* process_headers argument
    i,               \* number of loop iterations completed
    headers_map,     \* local of process_headers, argument of process_links
    headers_count,   \* local of process_headers
    html_in,         \* html as passed to the method
    html,            \* html as rewritten so far / returned
    links,           \* process_links argument
    space_key,       \* process_links argument
    page_id,         \* process_links argument
    title,           \* process_links argument
    quotes,          \* blockquote bodies found by re.findall
    refs,            \* footnote definitions found by re.findall
    self,            \* the fields of the ConfluenceConverter
    args,            \* arguments of the ConfluenceConverter method executed
    space_id,        \* add_local_refs argument
    calls,           \* calls made so far on the converter and the client
    page,            \* local of convert: the PageInfo of the page
    parent_page_id,  \* local of convert
    properties,      \* page properties held by Confluence
    properties_for_update,  \* local of get_properties_to_update
    url,             \* local of get_confluence_api_url
    first_html       \* html returned by an earlier convert_md_to_conf_html

vars == <<fn, pc, err, editor_version, ref_prefix, ref_postfix, headers, i,
          headers_map, headers_count, html_in, html, links, space_key,
          page_id, title, quotes, refs, self, args, space_id, calls, page,
          parent_page_id, properties, properties_for_update, url,
          first_html>>

\* the state of the ConfluenceConverter and of its publishing run
ccvars == <<self, args, space_id, calls, page, parent_page_id, properties,
            properties_for_update, url, first_html>>

-----------------------------------------------------------------------------
(* Bounds of the model *)

MaxHeaders == 3

-----------------------------------------------------------------------------
(* Generic string helpers (Python str / re primitives on token sequences) *)

\* F(v) with v evaluated once, whatever the number of times F reads it
Let(v, F(_)) == CHOOSE r \in {F(x) : x \in {v}} : TRUE

\* s[a..b] as a sequence (empty when a > b)
Slice(s, a, b) == [k \in 1..(b - a + 1) |-> s[a + k - 1]]

\* s[a:] of the sequence, 1-based
From(s, a) == Slice(s, a, Len(s))

\* sub occurs in s at position p
MatchAt(s, sub, p) ==
    /\ p >= 1
    /\ p + Len(sub) - 1 <= Len(s)
    /\ \A k \in 1..Len(sub) : s[p + k - 1] = sub[k]

\* str.find(sub, start): the least position >= start where sub occurs, 0 if none
Find(s, sub, start) ==
    LET hits == {p \in start..(Len(s) - Len(sub) + 1) : MatchAt(s, sub, p)}
    IN  IF hits = {} THEN 0 ELSE CHOOSE p \in hits : \A q \in hits : p <= q

\* sub in s
Contains(s, sub) == Find(s, sub, 1) # 0

RECURSIVE Replace(_, _, _)
\* str.replace(old, new): every non-overlapping occurrence, left to right
Replace(s, old, new) ==
    IF Len(old) = 0 THEN s
    ELSE LET p == Find(s, old, 1)
         IN  IF p = 0 THEN s
             ELSE Slice(s, 1, p - 1) \o new
                  \o Let(From(s, p + Len(old)),
                         LAMBDA rest : Replace(rest, old, new))

RECURSIVE Count(_, _)
\* str.count(sub): non-overlapping occurrences
Count(s, sub) ==
    IF Len(sub) = 0 THEN 0
    ELSE LET p == Find(s, sub, 1)
         IN  IF p = 0 THEN 0
             ELSE 1 + Let(From(s, p + Len(sub)), LAMBDA rest : Count(rest, sub))

RECURSIVE Concat(_)
\* "".join(parts)
Concat(parts) ==
    IF parts = <<>> THEN <<>> ELSE Head(parts) \o Concat(Tail(parts))

\* the tokens SelectSeq keeps
Keep(s, S) == LET In(t) == t \in S IN SelectSeq(s, In)
Drop(s, S) == LET Out(t) == t \notin S IN SelectSeq(s, Out)

\* sequences over S of length 0..n
SeqsUpTo(S, n) == UNION {[1..k -> S] : k \in 0..n}

Digit == <<"0", "1", "2", "3", "4", "5", "6", "7", "8", "9">>

RECURSIVE DecStr(_)
\* "%d" % n for n >= 0
DecStr(n) ==
    IF n < 10 THEN <<Digit[n + 1]>>
    ELSE DecStr(n \div 10) \o <<Digit[(n % 10) + 1]>>

\* dict assignment d[k] = v
DictSet(d, k, v) ==
    [x \in DOMAIN d \cup {k} |-> IF x = k THEN v ELSE d[x]]

EmptyDict == [x \in {} |-> <<>>]

-----------------------------------------------------------------------------
(* Tokens *)

WhiteSpace == {" ", "\n", "        "}

\* markup tags that can occur inside a heading or a paragraph
InlineTags == {"<em>", "</em>", "<strong>", "</strong>"}

\* HTML entities matched by &[a-z]+;
Entities == {"&amp;"}

\* characters matched by [a-zA-Z0-9-]
SlugChars == {"A", "a", "B", "b", "1", "2", "-"}

IsTag(t) == t \in InlineTags

\* str.lower() of one token
LowerTok(t) ==
    CASE t = "A" -> "a"
      [] t = "B" -> "b"
      [] OTHER -> t

Lower(s) == [k \in 1..Len(s) |-> LowerTok(s[k])]

-----------------------------------------------------------------------------
(* MarkdownConverter.slug *)

slug(string, lowercase) ==
    LET s0 == IF lowercase THEN Lower(string) ELSE string
        s1 == Drop(s0, InlineTags)                         \* <[^>]+>
        s2 == Drop(s1, Entities)                           \* &[a-z]+;
        s3 == [k \in 1..Len(s2) |-> IF s2[k] = " " THEN "-" ELSE s2[k]]
    IN  Keep(s3, SlugChars)                                \* [^a-zA-Z0-9-]

-----------------------------------------------------------------------------
(* MarkdownConverter.process_headers *)

RECURSIVE SubTagsAndSpaces(_)
\* re.sub(r"(<.+>| )", "", header): "<.+>" is greedy, so from a tag it runs
\* to the last '>' of the header, i.e. through the last tag
SubTagsAndSpaces(h) ==
    IF h = <<>> THEN <<>>
    ELSE IF IsTag(Head(h))
         THEN LET last == CHOOSE p \in 1..Len(h) :
                              /\ IsTag(h[p])
                              /\ \A q \in (p + 1)..Len(h) : ~IsTag(h[q])
              IN  SubTagsAndSpaces(From(h, last + 1))
         ELSE IF Head(h) = " "
              THEN SubTagsAndSpaces(Tail(h))
              ELSE <<Head(h)>> \o SubTagsAndSpaces(Tail(h))

\* the key computed for a header (converter.py line 524)
HeaderKey(prefix, header) == prefix \o slug(header, TRUE)

\* the value computed for a header (converter.py lines 526-529); only
\* editor versions 1 and 2 bind it
HeaderValue(version, header) ==
    IF version = 1 THEN SubTagsAndSpaces(header) ELSE slug(header, FALSE)

\* ref_postfix % alt_count succeeds when the pattern holds one conversion
PostfixFormats(postfix) == Count(postfix, <<"%d">>) = 1

\* ref_postfix % alt_count
FormatPostfix(postfix, n) == Replace(postfix, <<"%d">>, DecStr(n))

\* value + (".%s" % alt_count)
AltValue(value, n) == value \o <<".">> \o DecStr(n)

\* One iteration of the for loop (lines 523-541) on `header`, from the
\* locals st = [map, count]; yields the locals and the exception raised.
HeaderIter(version, prefix, postfix, st, header) ==
    LET key == HeaderKey(prefix, header)
        value == HeaderValue(version, header)
        bound == version \in {1, 2}       \* `value` was assigned
        Raise(e) == [map |-> st.map, count |-> st.count, err |-> e]
    IN  IF key \in DOMAIN st.map
        THEN IF key \notin DOMAIN st.count
             THEN Raise("KeyError")               \* headers_count[key]
             ELSE IF ~PostfixFormats(postfix)
             THEN Raise("TypeError")              \* ref_postfix % alt_count
             ELSE IF ~bound
             THEN Raise("UnboundLocalError")      \* value + ...
             ELSE LET alt_count == st.count[key]
                      alt_key == key \o FormatPostfix(postfix, alt_count)
                      alt_value == AltValue(value, alt_count)
                  IN  [map |-> DictSet(st.map, alt_key, alt_value),
                       count |-> DictSet(st.count, key, alt_count + 1),
                       err |-> ""]
        ELSE IF ~bound
             THEN Raise("UnboundLocalError")      \* headers_map[key] = value
             ELSE [map |-> DictSet(st.map, key, value),
                   count |-> DictSet(st.count, key, 1),
                   err |-> ""]

-----------------------------------------------------------------------------
(* Inputs of process_headers *)

\* editor versions: the two documented modes and one other integer, which
\* the command line also accepts (--version has type int)
EditorVersions == {1, 2, 3}

\* ref_prefixes of add_local_refs: "#" and "#markdown-header-"
Prefixes == {<<"#">>, <<"#", "markdown-header-">>}

\* postfix patterns: "_%d" (add_local_refs) and a caller-supplied "-%d"
Postfixes == {<<"_", "%d">>, <<"-", "%d">>}

\* heading texts: "A", "a", "A-1", "A 1", "<em>A</em>", "B &amp; <em>b</em>"
Headings ==
    { <<"A">>, <<"a">>, <<"A", "-", "1">>, <<"A", " ", "1">>,
      <<"<em>", "A", "</em>">>,
      <<"B", " ", "&amp;", " ", "<em>", "b", "</em>">> }

\* no ConfluenceConverter takes part: MarkdownConverter methods called alone
NoPublisher ==
    /\ self = <<>>
    /\ args = <<>>
    /\ space_id = 0
    /\ calls = <<>>
    /\ page = <<>>
    /\ parent_page_id = 0
    /\ properties = <<>>
    /\ properties_for_update = <<>>
    /\ url = <<>>
    /\ first_html = <<>>

\* variables a method does not use keep these values
NoHeaderArgs ==
    /\ ref_prefix = <<>>
    /\ ref_postfix = <<>>
    /\ headers = <<>>
    /\ headers_count = EmptyDict

NoHtmlArgs ==
    /\ html_in = <<>>
    /\ html = <<>>
    /\ links = <<>>
    /\ space_key = <<>>
    /\ page_id = 0
    /\ title = <<>>
    /\ quotes = <<>>
    /\ refs = <<>>

InitHeaders ==
    /\ fn = "process_headers"
    /\ NoPublisher
    /\ pc = "loop"
    /\ err = ""
    /\ editor_version \in EditorVersions
    /\ ref_prefix \in Prefixes
    /\ ref_postfix \in Postfixes
    /\ headers \in SeqsUpTo(Headings, MaxHeaders)
    /\ i = 0
    /\ headers_map = EmptyDict
    /\ headers_count = EmptyDict
    /\ NoHtmlArgs

\* for header in headers: one iteration (lines 523-541)
ProcessHeadersIter ==
    /\ fn = "process_headers"
    /\ pc = "loop"
    /\ i < Len(headers)
    /\ LET r == HeaderIter(editor_version, ref_prefix, ref_postfix,
                           [map |-> headers_map, count |-> headers_count],
                           headers[i + 1])
       IN  /\ headers_map' = r.map
           /\ headers_count' = r.count
           /\ err' = r.err
           /\ pc' = IF r.err = "" THEN "loop" ELSE "raised"
           /\ i' = IF r.err = "" THEN i + 1 ELSE i
    /\ UNCHANGED ccvars
    /\ UNCHANGED <<fn, editor_version, ref_prefix, ref_postfix, headers,
                   html_in, html, links, space_key, page_id, title, quotes, refs>>

\* return headers_map (line 543)
ProcessHeadersReturn ==
    /\ fn = "process_headers"
    /\ pc = "loop"
    /\ i = Len(headers)
    /\ pc' = "returned"
    /\ UNCHANGED ccvars
    /\ UNCHANGED <<fn, err, editor_version, ref_prefix, ref_postfix, headers,
                   i, headers_map, headers_count, html_in, html, links,
                   space_key, page_id, title, quotes, refs>>

NextHeaders == ProcessHeadersIter \/ ProcessHeadersReturn

SpecHeaders == InitHeaders /\ [][NextHeaders]_vars

-----------------------------------------------------------------------------
(* Claims about process_headers *)

\* the base key of the j-th heading
BaseKey(j) == HeaderKey(ref_prefix, headers[j])

\* how many earlier headings have the j-th heading's base key
Earlier(j) == Cardinality({q \in 1..(j - 1) : BaseKey(q) = BaseKey(j)})

\* the key and value the collision rule assigns to the j-th heading
ExpectedKey(j) ==
    IF Earlier(j) = 0 THEN BaseKey(j)
    ELSE BaseKey(j) \o FormatPostfix(ref_postfix, Earlier(j))

ExpectedValue(j) ==
    IF Earlier(j) = 0 THEN HeaderValue(editor_version, headers[j])
    ELSE AltValue(HeaderValue(editor_version, headers[j]), Earlier(j))

HeadersStoredAsExpected ==
    \A j \in 1..Len(headers) :
        /\ ExpectedKey(j) \in DOMAIN headers_map
        /\ headers_map[ExpectedKey(j)] = ExpectedValue(j)

\* C1: in editor mode 1 or 2, for any sequence of headings process_headers
\* returns a map in which the first heading with base key K is stored under
\* K with its display value and the n-th later heading with base key K is
\* stored under K + (postfix % n) with its display value + ".n".
C1_CollisionRule ==
    (fn = "process_headers" /\ editor_version \in {1, 2}) =>
        /\ pc # "raised"
        /\ pc = "returned" => HeadersStoredAsExpected

\* The same rule for the postfix pattern add_local_refs passes ("_%d"):
\* '_' never occurs in a slug, so no alternate key meets a base key.
CollisionRuleForUnderscore ==
    (/\ fn = "process_headers"
     /\ editor_version \in {1, 2}
     /\ ref_postfix = <<"_", "%d">>) =>
        /\ pc # "raised"
        /\ pc = "returned" => HeadersStoredAsExpected

\* C2: after process_headers has processed a sequence of headings, with any
\* prefix and postfix pattern, every heading has its own anchor key: the map
\* has as many entries as there were headings (no entry was overwritten).
C2_DistinctAnchorKeys ==
    (fn = "process_headers" /\ pc = "returned") =>
        Cardinality(DOMAIN headers_map) = Len(headers)

\* Once written, an entry of the map keeps its value.
NoEntryOverwritten ==
    [][\A k \in DOMAIN headers_map :
          k \in DOMAIN headers_map' /\ headers_map'[k] = headers_map[k]]_vars

DistinctKeysForUnderscore ==
    (/\ fn = "process_headers"
     /\ pc = "returned"
     /\ ref_postfix = <<"_", "%d">>) =>
        Cardinality(DOMAIN headers_map) = Len(headers)

-----------------------------------------------------------------------------
(* MarkdownConverter.process_links *)

AOpen == "<a href=\""
AMid == "\">"
AClose == "</a>"
ATitle == "\" title=\""

\* the matches of <a href="(#.+?)">(.+?)</a> in `link`: p the opening tag,
\* q the '">' that ends the reference, r the closing tag ('.' matches no
\* line break)
LinkMatches(link) ==
    LET n == Len(link)
        P == {p \in 1..(n - 1) : link[p] = AOpen /\ link[p + 1] = "#"}
        Q(p) == {q \in (p + 3)..n : link[q] = AMid}
        R(p, q) == {r \in (q + 2)..n :
                       link[r] = AClose /\ \A k \in p..r : link[k] # "\n"}
    IN  UNION {UNION {{<<p, q, r>> : r \in R(p, q)} : q \in Q(p)} : p \in P}

\* re.search: the leftmost match, both groups as short as possible
LinkMatch(link) ==
    CHOOSE m \in LinkMatches(link) :
        \A n \in LinkMatches(link) :
            \/ m[1] < n[1]
            \/ m[1] = n[1] /\ m[2] < n[2]
            \/ m[1] = n[1] /\ m[2] = n[2] /\ m[3] <= n[3]

\* matches.group(1) and matches.group(2)
LinkRef(link) == LET m == LinkMatch(link) IN Slice(link, m[1] + 1, m[2] - 1)
LinkAlt(link) == LET m == LinkMatch(link) IN Slice(link, m[2] + 1, m[3] - 1)

RECURSIVE SplitWords(_)
\* str.split(): the maximal runs of non-blank tokens
SplitWords(s) ==
    IF s = <<>> THEN <<>>
    ELSE IF Head(s) \in WhiteSpace THEN SplitWords(Tail(s))
    ELSE LET ends == {p \in 1..Len(s) : s[p] \in WhiteSpace}
             stop == IF ends = {} THEN Len(s) + 1
                     ELSE CHOOSE p \in ends : \A q \in ends : p <= q
         IN  <<Slice(s, 1, stop - 1)>> \o SplitWords(From(s, stop))

RECURSIVE Join(_, _)
\* sep.join(words)
Join(sep, words) ==
    IF words = <<>> THEN <<>>
    ELSE IF Len(words) = 1 THEN Head(words)
    ELSE Head(words) \o sep \o Join(sep, Tail(words))

\* "+".join(title.split())
PlusJoin(ttl) == Join(<<"+">>, SplitWords(ttl))

\* re.sub(r"( *<.+> *)", " ", alt): from the blanks before the first tag
\* through the last tag and the blanks after it
AltText(alt) ==
    LET tags == {p \in 1..Len(alt) : IsTag(alt[p])}
    IN  IF tags = {} THEN alt
        ELSE LET first == CHOOSE p \in tags : \A q \in tags : p <= q
                 last == CHOOSE p \in tags : \A q \in tags : q <= p
                 lo == CHOOSE p \in 1..first :
                           /\ \A k \in p..(first - 1) : alt[k] = " "
                           /\ \A q \in 1..(p - 1) :
                                  \E k \in q..(first - 1) : alt[k] # " "
                 hi == CHOOSE p \in last..Len(alt) :
                           /\ \A k \in (last + 1)..p : alt[k] = " "
                           /\ \A q \in (p + 1)..Len(alt) :
                                  \E k \in (last + 1)..q : alt[k] # " "
             IN  Slice(alt, 1, lo - 1) \o <<" ">> \o From(alt, hi + 1)

\* "%s/spaces/%s/pages/%d/%s" (lines 556-561)
BaseUri(api_url, space, pid, ttl) ==
    api_url \o <<"/spaces/">> \o space \o <<"/pages/">> \o DecStr(pid)
            \o <<"/">> \o PlusJoin(ttl)

\* the editor version 1 replacement (lines 563-568)
ReplacementV1(result_ref, alt) ==
    <<"<ac:link ac:anchor=\"">> \o result_ref
        \o <<"\">", "<ac:plain-text-link-body>", "<![CDATA[">> \o AltText(alt)
        \o <<"]]>", "</ac:plain-text-link-body>", "</ac:link>">>

\* the editor version 2 replacement (lines 570-575)
ReplacementV2(base_uri, result_ref, alt) ==
    <<AOpen>> \o base_uri \o <<"#">> \o result_ref \o <<ATitle>> \o alt
        \o <<AMid>> \o alt \o <<AClose>>

\* the value of a dict lookup that misses, and "%s" % None
None == <<"None">>

\* headers_map.get(ref) (line 553)
DictGet(map, ref) == IF ref \in DOMAIN map THEN map[ref] ELSE None

\* the test applied to a lookup result that takes every result as true
TruthyAlways(v) == TRUE

\* if result_ref: (line 555) neither None nor the empty string
Truthy(v) == v # None /\ v # <<>>

\* a replace that stops after the first occurrence
ReplaceFirst(h, old, new) ==
    LET p == Find(h, old, 1)
    IN  IF p = 0 \/ Len(old) = 0 THEN h
        ELSE Slice(h, 1, p - 1) \o new \o From(h, p + Len(old))

\* html.replace(link, replacement) (line 578)
ReplaceLink(h, link, replacement) == Replace(h, link, replacement)

\* One iteration of the for loop (lines 548-578) on `link`; yields the html
\* and the exception raised.
LinkIter(version, api_url, h, link, map, space, pid, ttl) ==
    IF LinkMatches(link) = {}
    THEN [html |-> h, err |-> "AttributeError"]        \* matches is None
    ELSE LET ref == LinkRef(link)
             alt == LinkAlt(link)
             result_ref == DictGet(map, ref)
         IN  IF ~Truthy(result_ref)
             THEN [html |-> h, err |-> ""]
             ELSE IF version \notin {1, 2}
             THEN [html |-> h, err |-> "UnboundLocalError"]  \* replacement
             ELSE LET base_uri == BaseUri(api_url, space, pid, ttl)
                      replacement ==
                          IF version = 1
                          THEN ReplacementV1(result_ref, alt)
                          ELSE ReplacementV2(base_uri, result_ref, alt)
                  IN  [html |-> ReplaceLink(h, link, replacement),
                       err |-> ""]

-----------------------------------------------------------------------------
(* process_headers as one call: the map it returns, or the exception *)

RECURSIVE HeadersFold(_, _, _, _, _)
HeadersFold(version, prefix, postfix, st, hs) ==
    IF hs = <<>> \/ st.err # "" THEN st
    ELSE HeadersFold(version, prefix, postfix,
                     HeaderIter(version, prefix, postfix, st, Head(hs)),
                     Tail(hs))

ProcessHeaders(version, prefix, postfix, hs) ==
    HeadersFold(version, prefix, postfix,
                [map |-> EmptyDict, count |-> EmptyDict, err |-> ""], hs)

-----------------------------------------------------------------------------
(* Inputs of process_links *)

MaxHtmlItems == 2
MaxLinks == 2

\* self.api_url
ApiUrl == <<"https://example.com/wiki">>

\* <a href="#a">A <em>1</em></a> and <a href="#b">B</a>
LinkA == <<AOpen, "#", "a", AMid, "A", " ", "<em>", "1", "</em>", AClose>>
LinkB == <<AOpen, "#", "b", AMid, "B", AClose>>
LinkSet == {LinkA, LinkB}

\* the pieces an html document is made of: local links and other text
HtmlItems == LinkSet \cup {<<"x">>}

\* the header maps process_headers returns, in editor mode 1 or 2, for the
\* heading lists [], ["A"], ["<em>A</em>"] and ["A", "a"]
MapHeadings ==
    { <<>>, << <<"A">> >>, << <<"<em>", "A", "</em>">> >>,
      << <<"A">>, <<"a">> >> }

HeaderMaps ==
    {ProcessHeaders(v, <<"#">>, <<"_", "%d">>, hs).map :
        v \in {1, 2}, hs \in MapHeadings}

\* page titles: "Test Page" and "Test  Page" (two blanks)
Titles == {<<"Test", " ", "Page">>, <<"Test", " ", " ", "Page">>}

SpaceKeys == {<<"TEST">>}
PageIds == {12345}

InitLinks ==
    /\ fn = "process_links"
    /\ NoPublisher
    /\ pc = "loop"
    /\ err = ""
    /\ editor_version \in EditorVersions
    /\ NoHeaderArgs
    /\ i = 0
    /\ headers_map \in HeaderMaps
    /\ html_in \in {Concat(items) : items \in SeqsUpTo(HtmlItems, MaxHtmlItems)}
    /\ html = html_in
    /\ links \in SeqsUpTo(LinkSet, MaxLinks)
    /\ space_key \in SpaceKeys
    /\ page_id \in PageIds
    /\ title \in Titles
    /\ quotes = <<>>
    /\ refs = <<>>

\* for link in links: one iteration (lines 548-578)
ProcessLinksIter ==
    /\ fn = "process_links"
    /\ pc = "loop"
    /\ i < Len(links)
    /\ LET r == LinkIter(editor_version, ApiUrl, html, links[i + 1],
                         headers_map, space_key, page_id, title)
       IN  /\ html' = r.html
           /\ err' = r.err
           /\ pc' = IF r.err = "" THEN "loop" ELSE "raised"
           /\ i' = IF r.err = "" THEN i + 1 ELSE i
    /\ UNCHANGED ccvars
    /\ UNCHANGED <<fn, editor_version, ref_prefix, ref_postfix, headers,
                   headers_map, headers_count, html_in, links, space_key,
                   page_id, title, quotes, refs>>

\* return html (line 580)
ProcessLinksReturn ==
    /\ fn = "process_links"
    /\ pc = "loop"
    /\ i = Len(links)
    /\ pc' = "returned"
    /\ UNCHANGED ccvars
    /\ UNCHANGED <<fn, err, editor_version, ref_prefix, ref_postfix, headers,
                   i, headers_map, headers_count, html_in, html, links,
                   space_key, page_id, title, quotes, refs>>

NextLinks == ProcessLinksIter \/ ProcessLinksReturn

SpecLinks == InitLinks /\ [][NextLinks]_vars

-----------------------------------------------------------------------------
(* Claims about process_links *)

\* the k-th link's reference is a key of the header map
IsKey(k) == LinkRef(links[k]) \in DOMAIN headers_map

\* the k-th link is resolved: its reference has a non-empty display value
IsResolved(k) == Truthy(DictGet(headers_map, LinkRef(links[k])))

\* C3: process_links leaves every link whose reference is not a key of the
\* header map unchanged in the html (also when other links of the same call
\* are rewritten), its iteration raises no error, and a call in which no
\* link is a key returns the html it was given.
C3_UnmatchedLinkUnchanged ==
    fn = "process_links" =>
        /\ \A k \in 1..Len(links) :
               ~IsKey(k) => Count(html, links[k]) = Count(html_in, links[k])
        /\ pc = "raised" => IsKey(i + 1)
        /\ (\A k \in 1..Len(links) : ~IsKey(k)) => html = html_in /\ pc # "raised"

\* a call returned in which one link was rewritten and another, which
\* occurs in the html, is not a key
C3_Witness ==
    /\ fn = "process_links"
    /\ pc = "returned"
    /\ html # html_in
    /\ \E k \in 1..Len(links) : ~IsKey(k) /\ Count(html, links[k]) > 0

\* C4: in editor mode 1 or 2, every link whose reference is a key of the
\* header map is replaced, whatever display value the map holds for the key:
\* the call returns and the link's markup no longer occurs in the html.
C4_EveryKeyedLinkRewritten ==
    (fn = "process_links" /\ editor_version \in {1, 2}) =>
        /\ pc # "raised"
        /\ pc = "returned" =>
               \A k \in 1..Len(links) : IsKey(k) => Count(html, links[k]) = 0

\* the same for the keys whose display value is not empty
ResolvedLinkRewritten ==
    (fn = "process_links" /\ editor_version \in {1, 2}) =>
        /\ pc # "raised"
        /\ pc = "returned" =>
               \A k \in 1..Len(links) :
                   IsResolved(k) => Count(html, links[k]) = 0

\* every blank of the title replaced by '+'
BlanksToPlus(ttl) == [k \in 1..Len(ttl) |-> IF ttl[k] = " " THEN "+" ELSE ttl[k]]

\* <a href="{apiUrl}/spaces/{spaceKey}/pages/{pageId}/{t}#{displayValue}"
\*    title="{alt}">{alt}</a> for the k-th link, t the title as it is put
\* into the url
MarkupV2(k, t) ==
    <<AOpen>> \o ApiUrl \o <<"/spaces/">> \o space_key \o <<"/pages/">>
        \o DecStr(page_id) \o <<"/">> \o t \o <<"#">>
        \o headers_map[LinkRef(links[k])] \o <<ATitle>> \o LinkAlt(links[k])
        \o <<AMid>> \o LinkAlt(links[k]) \o <<AClose>>

\* C5 as stated: in editor mode 2 every occurrence of a resolved link is
\* replaced by the markup whose url holds the title with its blanks
\* replaced by '+'; the original no longer occurs and the replacement
\* occurs as often as the original did.
C5_AllOccurrencesReplaced_BlanksToPlus ==
    (fn = "process_links" /\ editor_version = 2 /\ pc = "returned") =>
        \A k \in 1..Len(links) :
            IsResolved(k) =>
                /\ Count(html, links[k]) = 0
                /\ Count(html, MarkupV2(k, BlanksToPlus(title)))
                       = Count(html_in, links[k])

\* C5 amended: the url holds the title's blank-separated words joined by
\* '+' (a run of blanks gives one '+').
C5_AllOccurrencesReplaced ==
    (fn = "process_links" /\ editor_version = 2 /\ pc = "returned") =>
        \A k \in 1..Len(links) :
            IsResolved(k) =>
                /\ Count(html, links[k]) = 0
                /\ Count(html, MarkupV2(k, PlusJoin(title)))
                       = Count(html_in, links[k])

\* a resolved link that occurred twice was replaced twice
C5_Witness ==
    /\ fn = "process_links"
    /\ editor_version = 2
    /\ pc = "returned"
    /\ \E k \in 1..Len(links) :
           /\ IsResolved(k)
           /\ Count(html_in, links[k]) = 2
           /\ Count(html, MarkupV2(k, PlusJoin(title))) = 2

-----------------------------------------------------------------------------
(* Markup tokens of blockquotes and Confluence macros *)

P == "<p>"
PEnd == "</p>"
BlockquoteOpen == "<blockquote>"
BlockquoteClose == "</blockquote>"
RichTextBody == "<ac:rich-text-body>"
RichTextBodyEnd == "</ac:rich-text-body>"
StructuredMacroEnd == "</ac:structured-macro>"

\* <ac:structured-macro ac:name="...">
StructuredMacro(name) ==
    CASE name = "info" -> "<ac:structured-macro ac:name=\"info\">"
      [] name = "note" -> "<ac:structured-macro ac:name=\"note\">"
      [] name = "tip" -> "<ac:structured-macro ac:name=\"tip\">"
      [] name = "warning" -> "<ac:structured-macro ac:name=\"warning\">"
      [] name = "toc" -> "<ac:structured-macro ac:name=\"toc\">"

\* the ADF panel of type note; its panel-type text is the word "note"
AdfOpen ==
    <<"<ac:adf-extension>", "<ac:adf-node type=\"panel\">",
      "<ac:adf-attribute key=\"panel-type\">", "note", "</ac:adf-attribute>",
      "<ac:adf-content>">>
AdfClose == <<"</ac:adf-content>", "</ac:adf-node>", "</ac:adf-extension>">>

DocTocStart == "<!-- START doctoc"
DocTocEnd == "END doctoc -->"

\* the line break and indentation between the lines of toc_tag
TocBreak == <<"\n", "        ">>

TocParameters ==
    <<"<ac:parameter ac:name=\"printable\">true</ac:parameter>">> \o TocBreak
    \o <<"<ac:parameter ac:name=\"style\">disc</ac:parameter>">> \o TocBreak
    \o <<"<ac:parameter ac:name=\"maxLevel\">7</ac:parameter>">> \o TocBreak
    \o <<"<ac:parameter ac:name=\"minLevel\">1</ac:parameter>">> \o TocBreak
    \o <<"<ac:parameter ac:name=\"type\">list</ac:parameter>">> \o TocBreak
    \o <<"<ac:parameter ac:name=\"outline\">clear</ac:parameter>">> \o TocBreak
    \o <<"<ac:parameter ac:name=\"include\">.*</ac:parameter>">> \o TocBreak

\* every token that is one whole tag <...>
Markup ==
    InlineTags
    \cup {P, PEnd, BlockquoteOpen, BlockquoteClose, RichTextBody,
          RichTextBodyEnd, StructuredMacroEnd, AClose, "<sup>", "</sup>"}
    \cup {StructuredMacro(n) : n \in {"info", "note", "tip", "warning", "toc"}}
    \cup {AdfOpen[k] : k \in {1, 2, 3, 5, 6}}
    \cup {AdfClose[k] : k \in 1..3}
    \cup {TocParameters[k] : k \in {1, 4, 7, 10, 13, 16, 19}}

\* tokens whose first character is '<', tokens whose last character is '>'
StartsLt(t) ==
    t \in Markup \cup {AOpen, "<a id=\"test\" href=\"", DocTocStart, "<!--"}
EndsGt(t) == t \in Markup \cup {AMid, DocTocEnd, "-->"}

\* str.strip()
Strip(s) ==
    LET solid == {k \in 1..Len(s) : s[k] \notin WhiteSpace}
    IN  IF solid = {} THEN <<>>
        ELSE Slice(s, CHOOSE a \in solid : \A b \in solid : a <= b,
                      CHOOSE a \in solid : \A b \in solid : a >= b)

\* str.upper() of one token
UpperTok(t) ==
    CASE t \in {"note", "Note"} -> "NOTE"
      [] t \in {"tip", "Tip"} -> "TIP"
      [] t \in {"warning", "Warning"} -> "WARNING"
      [] t \in {"unknown", "Unknown"} -> "UNKNOWN"
      [] t = "a" -> "A"
      [] t = "b" -> "B"
      [] OTHER -> t

RECURSIVE FindAllBlockquotes(_)
\* re.findall(r"<blockquote>(.*?)</blockquote>", html, re.DOTALL)
FindAllBlockquotes(h) ==
    LET p == Find(h, <<BlockquoteOpen>>, 1)
        q == IF p = 0 THEN 0 ELSE Find(h, <<BlockquoteClose>>, p + 1)
    IN  IF q = 0 THEN <<>>
        ELSE <<Slice(h, p + 1, q - 1)>>
             \o Let(From(h, q + 1), LAMBDA rest : FindAllBlockquotes(rest))

\* "<blockquote>%s</blockquote>" % quote
Blockquote(quote) == <<BlockquoteOpen>> \o quote \o <<BlockquoteClose>>

-----------------------------------------------------------------------------
(* MarkdownConverter.convert_github_alerts and its helpers *)

AlertMarker == "[!"
AlertTypes == {"NOTE", "TIP", "IMPORTANT", "WARNING", "CAUTION"}

\* the value None
NoAlert ==
    [ok |-> FALSE, alert_type |-> "", first_line_content |-> <<>>,
     remaining_content |-> <<>>]

\* re.search(r"<p>\[!(NOTE|TIP|IMPORTANT|WARNING|CAUTION)\]", quote,
\* re.IGNORECASE): the position of the first match, 0 if none
AlertMatch(quote) ==
    LET hits == {p \in 1..(Len(quote) - 3) :
                    /\ quote[p] = P
                    /\ quote[p + 1] = AlertMarker
                    /\ UpperTok(quote[p + 2]) \in AlertTypes
                    /\ quote[p + 3] = "]"}
    IN  IF hits = {} THEN 0 ELSE CHOOSE p \in hits : \A q \in hits : p <= q

_parse_github_alert(quote) ==
    IF ~MatchAt(Strip(quote), <<P, AlertMarker>>, 1) THEN NoAlert
    ELSE LET alert_match == AlertMatch(quote)
             content_start == alert_match + 4
             first_p_end == Find(quote, <<PEnd>>, content_start)
         IN  IF alert_match = 0 THEN NoAlert
             ELSE IF first_p_end = 0 THEN NoAlert
             ELSE [ok |-> TRUE,
                   alert_type |-> UpperTok(quote[alert_match + 2]),
                   first_line_content |->
                       Strip(Slice(quote, content_start, first_p_end - 1)),
                   remaining_content |-> Strip(From(quote, first_p_end + 1))]

\* the opening tag of a structured macro as the alert conversion writes it
AlertTag(name) == <<P, StructuredMacro(name), RichTextBody>>
AlertCloseTag == <<RichTextBodyEnd, StructuredMacroEnd, PEnd>>

NoTags == [ok |-> FALSE, macro_tag |-> <<>>, close_macro_tag |-> <<>>]

\* WARNING mapped to the macro of its own name
IntuitiveAlertMacroTags(alert_type) ==
    CASE alert_type = "NOTE" ->
            [ok |-> TRUE, macro_tag |-> AlertTag("info"),
             close_macro_tag |-> AlertCloseTag]
      [] alert_type = "TIP" ->
            [ok |-> TRUE, macro_tag |-> AlertTag("tip"),
             close_macro_tag |-> AlertCloseTag]
      [] alert_type = "IMPORTANT" ->
            [ok |-> TRUE, macro_tag |-> AdfOpen, close_macro_tag |-> AdfClose]
      [] alert_type = "WARNING" ->
            [ok |-> TRUE, macro_tag |-> AlertTag("warning"),
             close_macro_tag |-> AlertCloseTag]
      [] alert_type = "CAUTION" ->
            [ok |-> TRUE, macro_tag |-> AlertTag("warning"),
             close_macro_tag |-> AlertCloseTag]
      [] OTHER -> NoTags

\* alert_mapping.get(alert_type)
_get_alert_macro_tags(alert_type) ==
    CASE alert_type = "NOTE" ->
            [ok |-> TRUE, macro_tag |-> AlertTag("info"),
             close_macro_tag |-> AlertCloseTag]
      [] alert_type = "TIP" ->
            [ok |-> TRUE, macro_tag |-> AlertTag("tip"),
             close_macro_tag |-> AlertCloseTag]
      [] alert_type = "IMPORTANT" ->
            [ok |-> TRUE, macro_tag |-> AdfOpen, close_macro_tag |-> AdfClose]
      [] alert_type = "WARNING" ->
            [ok |-> TRUE, macro_tag |-> AlertTag("note"),
             close_macro_tag |-> AlertCloseTag]
      [] alert_type = "CAUTION" ->
            [ok |-> TRUE, macro_tag |-> AlertTag("warning"),
             close_macro_tag |-> AlertCloseTag]
      [] OTHER -> NoTags

_build_alert_content(first_line_content, remaining_content) ==
    LET final_content ==
            (IF first_line_content # <<>>
             THEN <<P>> \o first_line_content \o <<PEnd>> ELSE <<>>)
            \o remaining_content
    IN  IF final_content # <<>> THEN final_content ELSE <<P, PEnd>>

\* the macro, or ok = FALSE for None
_create_alert_macro(alert_info) ==
    LET macro_tags == _get_alert_macro_tags(alert_info.alert_type)
    IN  IF ~macro_tags.ok THEN [ok |-> FALSE, macro |-> <<>>]
        ELSE [ok |-> TRUE,
              macro |-> macro_tags.macro_tag
                        \o _build_alert_content(alert_info.first_line_content,
                                                alert_info.remaining_content)
                        \o macro_tags.close_macro_tag]

\* one iteration of "for quote in blockquotes" (lines 216-223)
AlertIter(h, quote) ==
    LET parsed_alert == _parse_github_alert(quote)
        replacement_macro == _create_alert_macro(parsed_alert)
    IN  IF parsed_alert.ok /\ replacement_macro.ok
        THEN Replace(h, Blockquote(quote), replacement_macro.macro)
        ELSE h

RECURSIVE AlertsFold(_, _)
AlertsFold(h, blockquotes) ==
    IF blockquotes = <<>> THEN h
    ELSE AlertsFold(AlertIter(h, Head(blockquotes)), Tail(blockquotes))

\* convert_github_alerts as one call
ConvertGithubAlerts(h) == AlertsFold(h, FindAllBlockquotes(h))

-----------------------------------------------------------------------------
(* Inputs: documents with blockquotes, as the Markdown renderer writes them *)

MaxParas == 2

MarkerTypes ==
    {"NOTE", "note", "TIP", "IMPORTANT", "WARNING", "CAUTION", "UNKNOWN"}
Labels == {"Note", "Warning", "Success", "Error"}

\* <p>[!TYPE] text</p>
AlertPara(type) == <<P, AlertMarker, type, "]", " ", "text", PEnd>>
\* <p>[!NOTE]</p>
EmptyAlertPara == <<P, AlertMarker, "NOTE", "]", PEnd>>
\* <p>[!NOTE] text   with the paragraph not closed
OpenAlertPara == <<P, AlertMarker, "NOTE", "]", " ", "text">>
\* <p>Label: text</p>
LabelPara(label) == <<P, label, ":", " ", "text", PEnd>>
PlainPara == <<P, "more", PEnd>>

FirstParas ==
    {AlertPara(t) : t \in MarkerTypes} \cup {LabelPara(l) : l \in Labels}
    \cup {EmptyAlertPara, PlainPara}
RestParas == {PlainPara, AlertPara("NOTE"), LabelPara("Warning")}

RECURSIVE Lines(_)
\* the paragraphs, each followed by a line break
Lines(paras) ==
    IF paras = <<>> THEN <<>>
    ELSE Head(paras) \o <<"\n">> \o Lines(Tail(paras))

\* a blockquote body on one line, or one paragraph per line
Layout(paras, multiline) ==
    IF multiline THEN <<"\n">> \o Lines(paras) ELSE Concat(paras)

QuoteBodies ==
    {Layout(<<first>> \o rest, m) :
        first \in FirstParas, rest \in SeqsUpTo(RestParas, MaxParas - 1),
        m \in BOOLEAN}
    \cup {Layout(<<OpenAlertPara>>, m) : m \in BOOLEAN}

SecondBodies ==
    {AlertPara("WARNING"), PlainPara, LabelPara("Note"), AlertPara("UNKNOWN")}

QuoteDocs ==
    {<<"intro", "\n">> \o Blockquote(b) : b \in QuoteBodies}
    \cup {Blockquote(b) \o <<"\n">> \o Blockquote(c) :
            b \in QuoteBodies, c \in SecondBodies}

NoLinkArgs ==
    /\ headers_map = EmptyDict
    /\ links = <<>>
    /\ space_key = <<>>
    /\ page_id = 0
    /\ title = <<>>

InitAlerts ==
    /\ fn = "convert_github_alerts"
    /\ NoPublisher
    /\ pc = "start"
    /\ err = ""
    /\ editor_version \in {2}
    /\ NoHeaderArgs
    /\ NoLinkArgs
    /\ i = 0
    /\ html_in \in QuoteDocs
    /\ html = html_in
    /\ quotes = <<>>
    /\ refs = <<>>

\* blockquotes = re.findall(...) (line 214)
ConvertGithubAlertsFind ==
    /\ fn = "convert_github_alerts"
    /\ pc = "start"
    /\ quotes' = FindAllBlockquotes(html)
    /\ pc' = "loop"
    /\ UNCHANGED ccvars
    /\ UNCHANGED <<fn, err, editor_version, ref_prefix, ref_postfix, headers,
                   i, headers_map, headers_count, html_in, html, links,
                   space_key, page_id, title, refs>>

\* for quote in blockquotes: one iteration (lines 216-223)
ConvertGithubAlertsIter ==
    /\ fn = "convert_github_alerts"
    /\ pc = "loop"
    /\ i < Len(quotes)
    /\ html' = AlertIter(html, quotes[i + 1])
    /\ i' = i + 1
    /\ UNCHANGED ccvars
    /\ UNCHANGED <<fn, pc, err, editor_version, ref_prefix, ref_postfix,
                   headers, headers_map, headers_count, html_in, links,
                   space_key, page_id, title, quotes, refs>>

\* return html (line 225)
ConvertGithubAlertsReturn ==
    /\ fn = "convert_github_alerts"
    /\ pc = "loop"
    /\ i = Len(quotes)
    /\ pc' = "returned"
    /\ UNCHANGED ccvars
    /\ UNCHANGED <<fn, err, editor_version, ref_prefix, ref_postfix, headers,
                   i, headers_map, headers_count, html_in, html, links,
                   space_key, page_id, title, quotes, refs>>

NextAlerts ==
    \/ ConvertGithubAlertsFind
    \/ ConvertGithubAlertsIter
    \/ ConvertGithubAlertsReturn

SpecAlerts == InitAlerts /\ [][NextAlerts]_vars

\* the blockquote body starts with <p>[!TYPE], TYPE one of the five types
StartsWithAlert(quote) ==
    LET s == Strip(quote)
    IN  /\ Len(s) >= 4
        /\ s[1] = P /\ s[2] = AlertMarker /\ s[4] = "]"
        /\ UpperTok(s[3]) \in AlertTypes

\* the marker paragraph is closed by </p>
MarkerParaClosed(quote) == Find(Strip(quote), <<PEnd>>, 5) # 0

\* the macro the mapping of C6 names for an alert type
MacroOfAlert(type) ==
    CASE type = "NOTE" -> "info"
      [] type = "TIP" -> "tip"
      [] type = "WARNING" -> "note"
      [] type = "CAUTION" -> "warning"
      [] type = "IMPORTANT" -> "adf-panel"

\* the alert content wrapped in the macro of the alert's type
WrappedAlert(quote) ==
    LET s == Strip(quote)
        e == Find(s, <<PEnd>>, 5)
        headline == Strip(Slice(s, 5, e - 1))
        body == Strip(From(s, e + 1))
        content == IF headline = <<>> /\ body = <<>> THEN <<P, PEnd>>
                   ELSE IF headline = <<>> THEN body
                   ELSE <<P>> \o headline \o <<PEnd>> \o body
        name == MacroOfAlert(UpperTok(s[3]))
    IN  IF name = "adf-panel" THEN AdfOpen \o content \o AdfClose
        ELSE <<P, StructuredMacro(name), RichTextBody>> \o content
             \o <<RichTextBodyEnd, StructuredMacroEnd, PEnd>>

AlertsReturned == fn = "convert_github_alerts" /\ pc = "returned"

\* C6: when convert_github_alerts returns, every blockquote that starts with
\* [!TYPE] (TYPE one of NOTE, TIP, IMPORTANT, WARNING, CAUTION in any letter
\* case, its paragraph closed) no longer occurs in the html, and the macro of
\* its type (NOTE info, TIP tip, WARNING note, CAUTION warning, IMPORTANT the
\* ADF panel) wrapping its content occurs in its place.
C6_AlertMappedToMacro ==
    AlertsReturned =>
        \A j \in 1..Len(quotes) :
            StartsWithAlert(quotes[j]) /\ MarkerParaClosed(quotes[j]) =>
                /\ ~Contains(html, Blockquote(quotes[j]))
                /\ Count(html, WrappedAlert(quotes[j]))
                     >= Count(html_in, Blockquote(quotes[j]))
                /\ Count(html, <<BlockquoteOpen>>)
                     < Count(html_in, <<BlockquoteOpen>>)

\* a WARNING or IMPORTANT alert of two paragraphs has been converted
C6_Witness ==
    /\ AlertsReturned
    /\ \E j \in 1..Len(quotes) :
          /\ StartsWithAlert(quotes[j])
          /\ UpperTok(Strip(quotes[j])[3]) \in {"WARNING", "IMPORTANT"}
          /\ Count(quotes[j], <<P>>) = 2
          /\ Contains(html, WrappedAlert(quotes[j]))
          /\ html # html_in

\* the blockquote is not a recognised alert: no marker, a marker of another
\* type, or a marker paragraph that is not closed
NotAnAlert(quote) ==
    LET s == Strip(quote)
    IN  \/ ~MatchAt(s, <<P, AlertMarker>>, 1)
        \/ /\ Len(s) >= 4
           /\ s[4] = "]"
           /\ UpperTok(s[3]) \notin AlertTypes
        \/ StartsWithAlert(quote) /\ ~MarkerParaClosed(quote)

\* C7: when convert_github_alerts returns, every blockquote that is not a
\* recognised alert (unknown marker type, no marker, marker paragraph not
\* closed) is in the html exactly as it was, and a document with only such
\* blockquotes is returned unchanged.
C7_NotAlertUnchanged ==
    AlertsReturned =>
        /\ \A j \in 1..Len(quotes) :
              NotAnAlert(quotes[j]) =>
                  Count(html, Blockquote(quotes[j]))
                    = Count(html_in, Blockquote(quotes[j]))
        /\ (\A j \in 1..Len(quotes) : NotAnAlert(quotes[j])) => html = html_in

\* what does hold: a blockquote none of whose paragraphs carries a marker of
\* a recognised type is unchanged
NoRecognisedMarkerUnchanged ==
    AlertsReturned =>
        \A j \in 1..Len(quotes) :
            NotAnAlert(quotes[j]) /\ AlertMatch(quotes[j]) = 0 =>
                Count(html, Blockquote(quotes[j]))
                  = Count(html_in, Blockquote(quotes[j]))

-----------------------------------------------------------------------------
(* Regular expressions of strip_type on token sequences.  A pattern is a   *)
(* sequence of elements: One(S) matches one token of S, Lazy matches       *)
(* <.*?>, the shortest run of tokens on one line from a '<' to a '>'.      *)

One(S) == [k |-> "one", S |-> S]
Lazy == [k |-> "lazy", S |-> {}]

RECURSIVE MatchEnd(_, _, _)
\* the position after the match of pat that starts at p, 0 when none
MatchEnd(s, p, pat) ==
    IF pat = <<>> THEN p
    ELSE LET e == Head(pat)
         IN  IF e.k = "one"
             THEN IF p <= Len(s) /\ s[p] \in e.S
                  THEN MatchEnd(s, p + 1, Tail(pat)) ELSE 0
             ELSE LET ends == {q \in p..Len(s) :
                                 /\ StartsLt(s[p])
                                 /\ EndsGt(s[q])
                                 /\ \A r \in p..q : s[r] # "\n"
                                 /\ MatchEnd(s, q + 1, Tail(pat)) # 0}
                  IN  IF ends = {} THEN 0
                      ELSE MatchEnd(
                             s, 1 + CHOOSE q \in ends : \A r \in ends : q <= r,
                             Tail(pat))

RECURSIVE ReSub(_, _, _)
\* re.sub(pat, "", s, count)
ReSub(s, pat, count) ==
    LET hits == {p \in 1..Len(s) : MatchEnd(s, p, pat) # 0}
    IN  IF count = 0 \/ hits = {} THEN s
        ELSE LET p == CHOOSE a \in hits : \A b \in hits : a <= b
             IN  Slice(s, 1, p - 1)
                 \o Let(From(s, MatchEnd(s, p, pat)),
                        LAMBDA rest : ReSub(rest, pat, count - 1))

\* c.upper() of the first character of one token
UpperFirstTok(t) ==
    CASE t = "text" -> "Text"
      [] t = "more" -> "More"
      [] t = "note" -> "Note"
      [] t = "a" -> "A"
      [] t = "b" -> "B"
      [] OTHER -> t

\* upper_chars(string, [index]) with index the position of a token's first
\* character; a position past the end changes nothing
upper_chars(string, k) ==
    [x \in 1..Len(string) |->
        IF x = k THEN UpperFirstTok(string[x]) ELSE string[x]]

\* re.search("<[^>]*>", tag).end(): the position after the first tag,
\* 0 when the search finds nothing
FirstTagEnd(tag) ==
    LET spans == {k \in 1..Len(tag) :
                     StartsLt(tag[k]) /\ \E q \in k..Len(tag) : EndsGt(tag[q])}
        k == CHOOSE a \in spans : \A b \in spans : a <= b
        closers == {q \in k..Len(tag) : EndsGt(tag[q])}
    IN  IF spans = {} THEN 0
        ELSE 1 + CHOOSE a \in closers : \A b \in closers : a <= b

\* re.IGNORECASE passed as the fourth positional argument of re.sub is its
\* count: the substitutions are case-sensitive and replace two matches
IgnoreCaseAsCount == 2

\* the eight expressions of strip_type for a label, in the order applied;
\* the first two are applied to tag.strip()
StripPatterns(tagtype) ==
    LET T == One({tagtype})
        S == One(WhiteSpace)
        C == One({":"})
        E == One({"<em>", "<strong>"})
    IN  <<[strip |-> TRUE, pat |-> <<T, C, S>>],
          [strip |-> TRUE, pat |-> <<T, S, C, S>>],
          [strip |-> FALSE, pat |-> <<Lazy, T, C, S, Lazy>>],
          [strip |-> FALSE, pat |-> <<Lazy, T, S, C, S, Lazy>>],
          [strip |-> FALSE, pat |-> <<E, T, C, Lazy, S>>],
          [strip |-> FALSE, pat |-> <<E, T, S, C, Lazy, S>>],
          [strip |-> FALSE, pat |-> <<E, T, Lazy, C, S>>],
          [strip |-> FALSE, pat |-> <<E, T, S, Lazy, C, S>>]>>

RECURSIVE SubEach(_, _)
\* tag = re.sub(pattern, "", tag, re.IGNORECASE) for each pattern in turn
SubEach(tag, subs) ==
    IF subs = <<>> THEN tag
    ELSE Let(IF Head(subs).strip THEN Strip(tag) ELSE tag, LAMBDA u :
         Let(ReSub(u, Head(subs).pat, IgnoreCaseAsCount), LAMBDA t :
         SubEach(t, Tail(subs))))

strip_type(tag, tagtype) ==
    Let(SubEach(tag, StripPatterns(tagtype)), LAMBDA t :
    Let(FirstTagEnd(t), LAMBDA string_start :
        IF string_start = 0 THEN [err |-> "AttributeError", tag |-> t]
        ELSE [err |-> "", tag |-> upper_chars(t, string_start)]))

-----------------------------------------------------------------------------
(* MarkdownConverter.convert_doctoc *)

toc_tag ==
    <<P>> \o TocBreak \o <<StructuredMacro("toc")>> \o TocBreak
    \o TocParameters \o <<StructuredMacroEnd>> \o TocBreak \o <<PEnd>>

\* re.sub(r"<!-- START doctoc.*END doctoc -->", toc_tag, html, re.DOTALL):
\* the greedy .* runs from the first start marker to the last end marker
convert_doctoc(h) ==
    LET p == Find(h, <<DocTocStart>>, 1)
        ends == {q \in (p + 1)..Len(h) : h[q] = DocTocEnd}
    IN  IF p = 0 \/ ends = {} THEN h
        ELSE Slice(h, 1, p - 1) \o toc_tag
             \o From(h, 1 + CHOOSE a \in ends : \A b \in ends : a >= b)

-----------------------------------------------------------------------------
(* MarkdownConverter.convert_info_macros *)

\* info_tag and the tags made from it by replacing the macro name
InfoTag(name) == <<P, StructuredMacro(name), RichTextBody, P>>
close_tag == <<PEnd, RichTextBodyEnd, StructuredMacroEnd, PEnd>>
note_tag == AdfOpen \o <<P>>
note_close == <<PEnd>> \o AdfClose

\* custom tags converted into macros (lines 369-374)
CustomTags(h) ==
    LET h1 == Replace(Replace(h, <<P, "~?">>, InfoTag("info")),
                      <<"?~", PEnd>>, close_tag)
        h2 == Replace(Replace(h1, <<P, "~%">>, InfoTag("note")),
                      <<"%~", PEnd>>, close_tag)
        h3 == Replace(Replace(h2, <<P, "~^">>, InfoTag("tip")),
                      <<"^~", PEnd>>, close_tag)
        h4 == Replace(Replace(h3, <<P, "~$">>, InfoTag("warning")),
                      <<"$~", PEnd>>, close_tag)
    IN  Replace(Replace(h4, <<P, "~!">>, note_tag), <<"!~", PEnd>>, note_close)

\* the label a token starts with, letter case ignored ("" when none)
LabelPrefix(t) ==
    CASE t \in {"Note", "note", "NOTE"} -> "Note"
      [] t \in {"Warning", "warning", "WARNING"} -> "Warning"
      [] t \in {"Success", "success"} -> "Success"
      [] t \in {"Error", "error"} -> "Error"
      [] OTHER -> ""

\* re.search("^<.*>Label", quote.strip(), re.IGNORECASE) finds a match
LabelSearch(quote, label) ==
    LET s == Strip(quote)
    IN  /\ s # <<>>
        /\ StartsLt(s[1])
        /\ \E k \in 1..(Len(s) - 1) :
              /\ EndsGt(s[k])
              /\ LabelPrefix(s[k + 1]) = label
              /\ \A r \in 1..k : s[r] # "\n"

\* the branch of the if / elif chain taken ("" for the else branch)
RecognisedLabel(quote) ==
    IF LabelSearch(quote, "Note") THEN "Note"
    ELSE IF LabelSearch(quote, "Warning") THEN "Warning"
    ELSE IF LabelSearch(quote, "Success") THEN "Success"
    ELSE IF LabelSearch(quote, "Error") THEN "Error"
    ELSE ""

\* every label mapped as the alert of the same meaning
LabelTagsAsAlerts(label) ==
    CASE label = "Note" -> [open |-> InfoTag("info"), close |-> close_tag]
      [] label = "Warning" -> [open |-> InfoTag("note"), close |-> close_tag]
      [] label = "Success" -> [open |-> InfoTag("tip"), close |-> close_tag]
      [] label = "Error" -> [open |-> InfoTag("warning"), close |-> close_tag]
      [] OTHER -> [open |-> InfoTag("info"), close |-> close_tag]

\* the tags each branch of the chain puts in place of <p> and </p>
LabelTags(label) ==
    CASE label = "Note" -> [open |-> note_tag, close |-> note_close]
      [] label = "Warning" -> [open |-> InfoTag("note"), close |-> close_tag]
      [] label = "Success" -> [open |-> InfoTag("tip"), close |-> close_tag]
      [] label = "Error" -> [open |-> InfoTag("warning"), close |-> close_tag]
      [] OTHER -> [open |-> InfoTag("info"), close |-> close_tag]

\* macro_tag of one blockquote (lines 384-418)
MacroTag(quote) ==
    Let(RecognisedLabel(quote), LAMBDA label :
    Let(IF label = "" THEN [err |-> "", tag |-> quote]
        ELSE strip_type(quote, label), LAMBDA clean_tag :
    Let(Replace(clean_tag.tag, <<P>>, LabelTags(label).open), LAMBDA opened :
    Let(Replace(opened, <<PEnd>>, LabelTags(label).close), LAMBDA closed :
        [err |-> clean_tag.err, tag |-> Strip(closed)]))))

\* blockquotes that start with an alert marker are left as they are
QuoteIterSkippingMarkers(h, quote) ==
    Let(MacroTag(quote), LAMBDA macro_tag :
        IF macro_tag.err # "" THEN [html |-> h, err |-> macro_tag.err]
        ELSE IF MatchAt(Strip(quote), <<P, AlertMarker>>, 1)
        THEN [html |-> h, err |-> ""]
        ELSE [html |-> Replace(h, Blockquote(quote), macro_tag.tag),
              err |-> ""])

\* one iteration of "for quote in quotes" (lines 378-420)
QuoteIter(h, quote) ==
    Let(MacroTag(quote), LAMBDA macro_tag :
        IF macro_tag.err # "" THEN [html |-> h, err |-> macro_tag.err]
        ELSE [html |-> Replace(h, Blockquote(quote), macro_tag.tag),
              err |-> ""])

\* paragraphs in the custom delimiters, e.g. <p>~?text?~</p>
CustomParas ==
    {<<P, d[1], "text", d[2], PEnd>> :
        d \in {<<"~?", "?~">>, <<"~%", "%~">>, <<"~^", "^~">>,
               <<"~$", "$~">>, <<"~!", "!~">>}}

\* a doctoc comment block, as far as the expression of convert_doctoc reads it
DocTocBlock == <<DocTocStart, " ", "-->", "\n", "toc", "\n", "<!--", " ", DocTocEnd>>

\* the ways a label is written before the text: 'Label: ', 'Label : ', and
\* in em or strong with the colon inside or outside, with or without a
\* space before it
LabelVariants(label) ==
    {<<label, ":", " ">>, <<label, " ", ":", " ">>,
     <<"<strong>", label, ":", "</strong>", " ">>,
     <<"<em>", label, " ", ":", "</em>", " ">>,
     <<"<strong>", label, "</strong>", ":", " ">>,
     <<"<em>", label, " ", "</em>", ":", " ">>}
\* <p>{label variant}text</p>
VariantPara(variant) == <<P>> \o variant \o <<"text", PEnd>>
\* <p>text <em>Label</em> more</p>: the word after other text
LaterLabelPara(label) ==
    <<P, "text", " ", "<em>", label, "</em>", " ", "more", PEnd>>

LabelDocs ==
    {<<"intro", "\n">> \o Blockquote(VariantPara(v)) :
        v \in UNION {LabelVariants(l) :
                        l \in {"Note", "note", "Warning", "WARNING"}}}
    \cup {<<"intro", "\n">> \o Blockquote(LaterLabelPara(l)) :
            l \in {"Note", "Error"}}

InfoDocs ==
    QuoteDocs
    \cup LabelDocs
    \cup {c \o <<"\n">> \o Blockquote(b) : c \in CustomParas, b \in SecondBodies}
    \cup {DocTocBlock \o <<"\n">> \o Blockquote(b) : b \in SecondBodies}
    \cup {DocTocBlock \o <<"\n">> \o Blockquote(b) \o <<"\n">> \o DocTocBlock :
            b \in SecondBodies}

InitInfoMacros ==
    /\ fn = "convert_info_macros"
    /\ NoPublisher
    /\ pc = "alerts"
    /\ err = ""
    /\ editor_version \in {2}
    /\ NoHeaderArgs
    /\ NoLinkArgs
    /\ i = 0
    /\ html_in \in InfoDocs
    /\ html = html_in
    /\ quotes = <<>>
    /\ refs = <<>>

\* html = self.convert_github_alerts(html) (line 352)
InfoMacrosAlerts ==
    /\ fn = "convert_info_macros"
    /\ pc = "alerts"
    /\ html' = ConvertGithubAlerts(html)
    /\ pc' = "custom"
    /\ UNCHANGED ccvars
    /\ UNCHANGED <<fn, err, editor_version, ref_prefix, ref_postfix, headers,
                   i, headers_map, headers_count, html_in, links, space_key,
                   page_id, title, quotes, refs>>

\* the custom tag replacements (lines 369-374)
InfoMacrosCustomTags ==
    /\ fn = "convert_info_macros"
    /\ pc = "custom"
    /\ html' = CustomTags(html)
    /\ pc' = "find"
    /\ UNCHANGED ccvars
    /\ UNCHANGED <<fn, err, editor_version, ref_prefix, ref_postfix, headers,
                   i, headers_map, headers_count, html_in, links, space_key,
                   page_id, title, quotes, refs>>

\* quotes = re.findall(...) (line 377)
InfoMacrosFind ==
    /\ fn = "convert_info_macros"
    /\ pc = "find"
    /\ quotes' = FindAllBlockquotes(html)
    /\ pc' = "loop"
    /\ UNCHANGED ccvars
    /\ UNCHANGED <<fn, err, editor_version, ref_prefix, ref_postfix, headers,
                   i, headers_map, headers_count, html_in, html, links,
                   space_key, page_id, title, refs>>

\* for quote in quotes: one iteration (lines 379-420)
InfoMacrosIter ==
    /\ fn = "convert_info_macros"
    /\ pc = "loop"
    /\ i < Len(quotes)
    /\ \E r \in {QuoteIter(html, quotes[i + 1])} :
           /\ html' = r.html
           /\ err' = r.err
           /\ pc' = IF r.err = "" THEN "loop" ELSE "raised"
           /\ i' = IF r.err = "" THEN i + 1 ELSE i
    /\ UNCHANGED ccvars
    /\ UNCHANGED <<fn, editor_version, ref_prefix, ref_postfix, headers,
                   headers_map, headers_count, html_in, links, space_key,
                   page_id, title, quotes, refs>>

\* html = self.convert_doctoc(html); return html (lines 423-425)
InfoMacrosDoctocReturn ==
    /\ fn = "convert_info_macros"
    /\ pc = "loop"
    /\ i = Len(quotes)
    /\ html' = convert_doctoc(html)
    /\ pc' = "returned"
    /\ UNCHANGED ccvars
    /\ UNCHANGED <<fn, err, editor_version, ref_prefix, ref_postfix, headers,
                   i, headers_map, headers_count, html_in, links, space_key,
                   page_id, title, quotes, refs>>

NextInfoMacros ==
    \/ InfoMacrosAlerts
    \/ InfoMacrosCustomTags
    \/ InfoMacrosFind
    \/ InfoMacrosIter
    \/ InfoMacrosDoctocReturn

SpecInfoMacros == InitInfoMacros /\ [][NextInfoMacros]_vars

InfoMacrosReturned == fn = "convert_info_macros" /\ pc = "returned"

\* the loop over the blockquotes has ended, convert_doctoc has not yet run
HeuristicDone ==
    fn = "convert_info_macros" /\ pc = "loop" /\ i = Len(quotes)

\* the blockquote body starts with <p>[!TYPE] and TYPE is none of the five
UnknownAlert(quote) ==
    LET s == Strip(quote)
    IN  /\ Len(s) >= 4
        /\ s[1] = P /\ s[2] = AlertMarker /\ s[4] = "]"
        /\ UpperTok(s[3]) \notin AlertTypes

\* the blockquote body with every paragraph in an 'info' structured macro
InfoWrapped(quote) ==
    Strip(Replace(Replace(quote, <<P>>,
                          <<P, StructuredMacro("info"), RichTextBody, P>>),
                  <<PEnd>>,
                  <<PEnd, RichTextBodyEnd, StructuredMacroEnd, PEnd>>))

\* C8 as stated: when convert_info_macros returns, every blockquote of the
\* input that carries an unknown alert type is still in the html as a plain
\* blockquote.
C8_UnknownAlertStaysBlockquote ==
    InfoMacrosReturned =>
        \A j \in 1..Len(FindAllBlockquotes(html_in)) :
            LET quote == FindAllBlockquotes(html_in)[j]
            IN  UnknownAlert(quote) => Contains(html, Blockquote(quote))

\* C8 amended: no blockquote of the input that carries an unknown alert type
\* is still a blockquote once the heuristic step has run, nor when
\* convert_info_macros returns; when none of its paragraphs carries a
\* recognised alert marker or heuristic label, the heuristic step has put its
\* paragraphs, marker text included, in the default 'info' structured macro.
C8_UnknownAlertBecomesMacro ==
    \A j \in 1..Len(FindAllBlockquotes(html_in)) :
        LET quote == FindAllBlockquotes(html_in)[j]
            unlabelled == AlertMatch(quote) = 0 /\ RecognisedLabel(quote) = ""
        IN  UnknownAlert(quote) =>
                /\ (HeuristicDone \/ InfoMacrosReturned)
                      => ~Contains(html, Blockquote(quote))
                /\ (HeuristicDone /\ unlabelled)
                      => Contains(html, InfoWrapped(quote))

\* a blockquote <p>[!UNKNOWN] text</p> has become an info macro that still
\* holds the marker text
C8_Witness ==
    /\ InfoMacrosReturned
    /\ \E j \in 1..Len(FindAllBlockquotes(html_in)) :
          LET quote == FindAllBlockquotes(html_in)[j]
          IN  /\ UnknownAlert(quote)
              /\ AlertMatch(quote) = 0
              /\ Contains(html, InfoWrapped(quote))
              /\ Contains(html, <<AlertMarker, "UNKNOWN", "]">>)
              /\ ~Contains(html, <<BlockquoteOpen>>)

\* the macro a labelled blockquote becomes: the tags around each paragraph of
\* the body once strip_type has removed the label
Wrapped(quote, open, close) ==
    Let(RecognisedLabel(quote), LAMBDA label :
    Let(IF label = "" THEN quote ELSE strip_type(quote, label).tag,
        LAMBDA clean :
    Let(Replace(clean, <<P>>, open), LAMBDA opened :
        Strip(Replace(opened, <<PEnd>>, close)))))

StructuredOpen(name) == <<P, StructuredMacro(name), RichTextBody, P>>
StructuredClose == <<PEnd, RichTextBodyEnd, StructuredMacroEnd, PEnd>>

\* C9 as stated: once the heuristic step of convert_info_macros has run over
\* the blockquotes it found, each of them has become the structured macro
\* of its label: Note info, Warning note, Success tip, Error warning, no
\* label info.
C9_LabelMapping_NoteToInfo ==
    HeuristicDone =>
        \A j \in 1..Len(quotes) :
            LET label == RecognisedLabel(quotes[j])
                name == CASE label = "Note" -> "info"
                          [] label = "Warning" -> "note"
                          [] label = "Success" -> "tip"
                          [] label = "Error" -> "warning"
                          [] OTHER -> "info"
            IN  Contains(html_in, Blockquote(quotes[j])) =>
                    Contains(html, Wrapped(quotes[j], StructuredOpen(name),
                                           StructuredClose))

\* C9 amended: once the heuristic step of convert_info_macros has run over
\* the blockquotes it found, each of them has become the macro of its
\* label: Note the ADF panel extension of panel-type note, Warning the 'note'
\* structured macro, Success 'tip', Error 'warning', no label 'info'.
C9_LabelMapping ==
    HeuristicDone =>
        \A j \in 1..Len(quotes) :
            LET label == RecognisedLabel(quotes[j])
                name == CASE label = "Warning" -> "note"
                          [] label = "Success" -> "tip"
                          [] label = "Error" -> "warning"
                          [] OTHER -> "info"
            IN  Contains(html_in, Blockquote(quotes[j])) =>
                    /\ ~Contains(html, Blockquote(quotes[j]))
                    /\ IF label = "Note"
                       THEN Contains(html, Wrapped(quotes[j],
                                                   AdfOpen \o <<P>>,
                                                   <<PEnd>> \o AdfClose))
                       ELSE Contains(html, Wrapped(quotes[j],
                                                   StructuredOpen(name),
                                                   StructuredClose))

\* a Note blockquote has become an ADF panel and a Warning blockquote a
\* 'note' structured macro
C9_Witness ==
    /\ HeuristicDone
    /\ \E j \in 1..Len(quotes) :
          /\ RecognisedLabel(quotes[j]) = "Note"
          /\ Contains(html, Wrapped(quotes[j], AdfOpen \o <<P>>,
                                    <<PEnd>> \o AdfClose))
    /\ \E j \in 1..Len(quotes) :
          /\ RecognisedLabel(quotes[j]) = "Warning"
          /\ Contains(html, Wrapped(quotes[j], StructuredOpen("note"),
                                    StructuredClose))

-----------------------------------------------------------------------------
(* MarkdownConverter.process_refs *)

RefMarker == "[^"
SupOpen == "<a id=\"test\" href=\""
DigitTokens == {Digit[k] : k \in 1..10}

\* a footnote definition starts at p: \n or <p>, then [^, one digit, ]
RefAt(h, p) ==
    /\ p + 3 <= Len(h)
    /\ h[p] \in {"\n", P}
    /\ h[p + 1] = RefMarker
    /\ h[p + 2] \in DigitTokens
    /\ h[p + 3] = "]"

\* the last position of the line that holds position p (.* stops at \n)
LineEnd(h, p) ==
    LET breaks == {q \in (p + 1)..Len(h) : h[q] = "\n"}
    IN  IF breaks = {} THEN Len(h)
        ELSE (CHOOSE a \in breaks : \A b \in breaks : a <= b) - 1

RECURSIVE FindAllRefs(_)
\* re.findall(r"\n(\[\^(\d)\].*)|<p>(\[\^(\d)\].*)", html): the four groups
\* of each match, the groups of the alternative not taken empty
FindAllRefs(h) ==
    LET hits == {p \in 1..Len(h) : RefAt(h, p)}
        p == CHOOSE a \in hits : \A b \in hits : a <= b
        e == LineEnd(h, p + 3)
        groups == IF h[p] = "\n"
                  THEN <<Slice(h, p + 1, e), <<h[p + 2]>>, <<>>, <<>>>>
                  ELSE <<<<>>, <<>>, Slice(h, p + 1, e), <<h[p + 2]>>>>
    IN  IF hits = {} THEN <<>>
        ELSE <<groups>> \o Let(From(h, e + 1), LAMBDA rest : FindAllRefs(rest))

\* re.search('href="(.*?)"', full_ref).group(1), None when there is no match
Href(full_ref) ==
    LET opens == {p \in 1..Len(full_ref) :
                     /\ full_ref[p] \in {AOpen, SupOpen}
                     /\ \E q \in (p + 1)..Len(full_ref) :
                           full_ref[q] \in {AMid, ATitle}}
        p == CHOOSE a \in opens : \A b \in opens : a <= b
        quotes_after == {q \in (p + 1)..Len(full_ref) :
                            full_ref[q] \in {AMid, ATitle}}
        q == CHOOSE a \in quotes_after : \A b \in quotes_after : a <= b
    IN  IF opens = {} THEN None ELSE Slice(full_ref, p + 1, q - 1)

\* '<a id="test" href="%s"><sup>%s</sup></a>' % (href, ref_id)
Superscript(href, ref_id) ==
    <<SupOpen>> \o href \o <<AMid, "<sup>">> \o ref_id \o <<"</sup>", AClose>>

\* one iteration of "for ref in refs" (lines 595-610)
RefIter(h, ref) ==
    Let(IF ref[1] # <<>> THEN ref[1] ELSE ref[3], LAMBDA group :
    Let(IF ref[1] # <<>> THEN ref[2] ELSE ref[4], LAMBDA ref_id :
    Let(Drop(group, {P, PEnd}), LAMBDA full_ref :
    Let(Replace(h, full_ref, <<>>), LAMBDA removed :
    Let(Href(full_ref), LAMBDA href :
        IF href = None THEN [html |-> removed, err |-> "AttributeError"]
        ELSE [html |-> Replace(removed, <<RefMarker>> \o ref_id \o <<"]">>,
                               Superscript(href, ref_id)),
              err |-> ""])))))

-----------------------------------------------------------------------------
(* Inputs: documents with footnote markers and definitions, one paragraph  *)
(* or bare definition per line                                             *)

MaxLines == 3

RefIds == {<<"1">>, <<"2">>, <<"1", "0">>}

\* the link target of the footnote with this id
HrefOf(id) == IF id = <<"1">> THEN <<"http://x.com">> ELSE <<"http://y.com">>

\* [^N]
Marker(id) == <<RefMarker>> \o id \o <<"]">>

\* <p>t[^N].</p>
TextLine(id) == <<P, "t">> \o Marker(id) \o <<".", PEnd>>
\* <p>t[^1] u[^1]</p>
TwiceLine == <<P, "t">> \o Marker(<<"1">>) \o <<" ", "u">> \o Marker(<<"1">>) \o <<PEnd>>
\* <p>[^1] says.</p>
LeadingMarkerLine == <<P>> \o Marker(<<"1">>) \o <<" ", "says", ".", PEnd>>
\* [^N]: See <a href="H">here</a>.
BareDef(id) ==
    Marker(id) \o <<":", " ", "See", " ", AOpen>> \o HrefOf(id)
    \o <<AMid, "here", AClose, ".">>
\* <p>[^N]: See <a href="H">here</a>.</p>
ParaDef(id) == <<P>> \o BareDef(id) \o <<PEnd>>
\* [^1]: none
NoLinkDef == Marker(<<"1">>) \o <<":", " ", "none">>

RefLines ==
    {TextLine(id) : id \in RefIds} \cup {BareDef(id) : id \in RefIds}
    \cup {TwiceLine, LeadingMarkerLine, ParaDef(<<"1">>), NoLinkDef}

RECURSIVE JoinLines(_)
\* "\n".join(lines)
JoinLines(lines) ==
    IF lines = <<>> THEN <<>>
    ELSE IF Len(lines) = 1 THEN lines[1]
    ELSE lines[1] \o <<"\n">> \o JoinLines(Tail(lines))

RefDocs == {JoinLines(lines) : lines \in SeqsUpTo(RefLines, MaxLines) \ {<<>>}}

InitRefs ==
    /\ fn = "process_refs"
    /\ NoPublisher
    /\ pc = "start"
    /\ err = ""
    /\ editor_version \in {2}
    /\ NoHeaderArgs
    /\ NoLinkArgs
    /\ i = 0
    /\ html_in \in RefDocs
    /\ html = html_in
    /\ quotes = <<>>
    /\ refs = <<>>

\* refs = re.findall(...) (line 591)
ProcessRefsFind ==
    /\ fn = "process_refs"
    /\ pc = "start"
    /\ refs' = FindAllRefs(html)
    /\ pc' = "loop"
    /\ UNCHANGED ccvars
    /\ UNCHANGED <<fn, err, editor_version, ref_prefix, ref_postfix, headers,
                   i, headers_map, headers_count, html_in, html, links,
                   space_key, page_id, title, quotes>>

\* for ref in refs: one iteration (lines 594-610)
ProcessRefsIter ==
    /\ fn = "process_refs"
    /\ pc = "loop"
    /\ i < Len(refs)
    /\ \E r \in {RefIter(html, refs[i + 1])} :
           /\ html' = r.html
           /\ err' = r.err
           /\ pc' = IF r.err = "" THEN "loop" ELSE "raised"
           /\ i' = IF r.err = "" THEN i + 1 ELSE i
    /\ UNCHANGED ccvars
    /\ UNCHANGED <<fn, editor_version, ref_prefix, ref_postfix, headers,
                   headers_map, headers_count, html_in, links, space_key,
                   page_id, title, quotes, refs>>

\* return html (line 612)
ProcessRefsReturn ==
    /\ fn = "process_refs"
    /\ pc = "loop"
    /\ i = Len(refs)
    /\ pc' = "returned"
    /\ UNCHANGED ccvars
    /\ UNCHANGED <<fn, err, editor_version, ref_prefix, ref_postfix, headers,
                   i, headers_map, headers_count, html_in, html, links,
                   space_key, page_id, title, quotes, refs>>

NextRefs == ProcessRefsFind \/ ProcessRefsIter \/ ProcessRefsReturn

SpecRefs == InitRefs /\ [][NextRefs]_vars

ProcessRefsEnded == fn = "process_refs" /\ pc \in {"returned", "raised"}

RECURSIVE SplitLines(_)
\* the lines of a document
SplitLines(h) ==
    LET p == Find(h, <<"\n">>, 1)
    IN  IF p = 0 THEN <<h>>
        ELSE <<Slice(h, 1, p - 1)>>
             \o Let(From(h, p + 1), LAMBDA rest : SplitLines(rest))

\* a line without the <p> that may open it
DefBody(line) == IF line # <<>> /\ line[1] = P THEN Tail(line) ELSE line

\* the position of the ] that ends the id of a definition line, 0 if the line
\* is no definition [^N]: ...
DefIdEnd(line) ==
    LET b == DefBody(line)
        ends == {k \in 3..(Len(b) - 1) :
                    /\ b[1] = RefMarker
                    /\ \A m \in 2..(k - 1) : b[m] \in DigitTokens
                    /\ b[k] = "]"
                    /\ b[k + 1] = ":"}
    IN  IF ends = {} THEN 0 ELSE CHOOSE k \in ends : TRUE

IsDef(line) == DefIdEnd(line) # 0
IsLinkedDef(line) == IsDef(line) /\ Contains(line, <<AOpen>>)
DefId(line) == Slice(DefBody(line), 2, DefIdEnd(line) - 1)
\* the href of the first link of a definition line
DefHref(line) ==
    LET a == Find(line, <<AOpen>>, 1)
    IN  Slice(line, a + 1, Find(line, <<AMid>>, a) - 1)
\* the definition text: the line without its paragraph tags
DefText(line) == Drop(line, {P, PEnd})

\* the number of in-text markers [^N]: those outside the definition lines
TextMarkers(h, id) ==
    LET NotDef(line) == ~IsDef(line)
    IN  Count(JoinLines(SelectSeq(SplitLines(h), NotDef)), Marker(id))

\* the paragraph starts with a marker that is no definition
LeadingMarker(line) ==
    /\ Len(line) >= 2
    /\ line[1] = P /\ line[2] = RefMarker
    /\ ~IsDef(line)

\* C10: when process_refs ends on a document all of whose footnote
\* definitions contain a link (and none of whose paragraphs starts with a
\* marker), it has returned, and for every definition
\* [^N]: ... (bare or in a paragraph) the definition text is gone, no marker
\* [^N] is left, and <a id="test" href="H"><sup>N</sup></a> stands once for
\* every in-text marker [^N], H the href of the definition's first link.
C10_FootnotesRewritten ==
    /\ ProcessRefsEnded
    /\ \A k \in 1..Len(SplitLines(html_in)) :
          LET line == SplitLines(html_in)[k]
          IN  /\ IsDef(line) => IsLinkedDef(line)
              /\ ~LeadingMarker(line)
    => /\ pc = "returned"
       /\ \A k \in 1..Len(SplitLines(html_in)) :
             LET line == SplitLines(html_in)[k]
             IN  IsLinkedDef(line) =>
                     /\ ~Contains(html, DefText(line))
                     /\ ~Contains(html, Marker(DefId(line)))
                     /\ Count(html, Superscript(DefHref(line), DefId(line)))
                          = TextMarkers(html_in, DefId(line))

\* what does hold: a definition with a one-digit id that the expression of
\* process_refs matches (in a paragraph, or bare after a line break) is
\* rewritten as C10 says, in a document with no paragraph that starts with a
\* marker
OneDigitFootnotesRewritten ==
    /\ ProcessRefsEnded
    /\ \A k \in 1..Len(SplitLines(html_in)) :
          LET line == SplitLines(html_in)[k]
          IN  /\ IsDef(line) => IsLinkedDef(line)
              /\ ~LeadingMarker(line)
    => /\ pc = "returned"
       /\ \A k \in 1..Len(SplitLines(html_in)) :
             LET line == SplitLines(html_in)[k]
             IN  /\ IsLinkedDef(line)
                 /\ Len(DefId(line)) = 1
                 /\ k > 1 \/ line[1] = P
                 => /\ ~Contains(html, DefText(line))
                    /\ ~Contains(html, Marker(DefId(line)))
                    /\ Count(html, Superscript(DefHref(line), DefId(line)))
                         = TextMarkers(html_in, DefId(line))

\* the document holds a footnote definition [^N]: ... with no link in it
HasDefWithoutHref(h) ==
    \E k \in 1..Len(SplitLines(h)) :
        IsDef(SplitLines(h)[k]) /\ ~IsLinkedDef(SplitLines(h)[k])

\* C11: whenever a footnote definition of the document contains no href,
\* process_refs ends by raising: it never returns html for such a document.
C11_DefWithoutHrefRaises ==
    ProcessRefsEnded /\ HasDefWithoutHref(html_in) => pc = "raised"

\* what does hold: a definition with no href that the expression of
\* process_refs matches (one-digit id, in a paragraph or bare after a line
\* break) makes process_refs raise AttributeError
MatchedDefWithoutHrefRaises ==
    /\ ProcessRefsEnded
    /\ \E k \in 1..Len(SplitLines(html_in)) :
          LET line == SplitLines(html_in)[k]
          IN  /\ IsDef(line) /\ ~IsLinkedDef(line)
              /\ Len(DefId(line)) = 1
              /\ k > 1 \/ line[1] = P
    => pc = "raised" /\ err = "AttributeError"

-----------------------------------------------------------------------------
(* ConfluenceConverter.add_local_refs                                      *)
(* (src/md_to_conf/confluence_converter.py, lines 164-220)                 *)

\* <h1>, <h2> and their closing tags: what <h\d+> and </h\d+> match
HOpenTags == {"<h1>", "<h2>"}
HCloseTags == {"</h1>", "</h2>"}

RECURSIVE FindAllHeaders(_)
\* re.findall(r"<h\d+>(.*?)</h\d+>", html, re.DOTALL): the text between each
\* opening tag and the first closing tag after it, of whatever level
FindAllHeaders(h) ==
    LET hits == {p \in 1..Len(h) :
                    /\ h[p] \in HOpenTags
                    /\ \E q \in (p + 1)..Len(h) : h[q] \in HCloseTags}
        p == CHOOSE a \in hits : \A b \in hits : a <= b
        closes == {q \in (p + 1)..Len(h) : h[q] \in HCloseTags}
        q == CHOOSE a \in closes : \A b \in closes : a <= b
    IN  IF hits = {} THEN <<>>
        ELSE <<Slice(h, p + 1, q - 1)>>
             \o Let(From(h, q + 1), LAMBDA rest : FindAllHeaders(rest))

\* the matches of <a href=".+?">.+?</a>: a link to any target
AnyLinkMatches(h) ==
    LET n == Len(h)
        Q(p) == {q \in (p + 2)..n : h[q] = AMid}
        R(p, q) == {r \in (q + 2)..n :
                       h[r] = AClose /\ \A k \in p..r : h[k] # "\n"}
    IN  UNION {UNION {{<<p, q, r>> : r \in R(p, q)} : q \in Q(p)} :
                  p \in {p \in 1..(n - 1) : h[p] = AOpen}}

RECURSIVE FindAll(_, _)
\* re.findall for a pattern with no group: the leftmost match, its parts as
\* short as possible, then the matches of the text after it
FindAll(Matches(_), h) ==
    LET ms == Matches(h)
        m == CHOOSE a \in ms :
                 \A b \in ms :
                     \/ a[1] < b[1]
                     \/ a[1] = b[1] /\ a[2] < b[2]
                     \/ a[1] = b[1] /\ a[2] = b[2] /\ a[3] <= b[3]
    IN  IF ms = {} THEN <<>>
        ELSE <<Slice(h, m[1], m[3])>>
             \o Let(From(h, m[3] + 1), LAMBDA rest : FindAll(Matches, rest))

\* a findall that takes the links to other documents for local links too
FindAllAnyLinks(h) == FindAll(AnyLinkMatches, h)

\* re.findall(r'<a href="#.+?">.+?</a>', html) (line 211)
FindAllLocalLinks(h) == FindAll(LinkMatches, h)

RECURSIVE LinksFold(_, _, _, _, _, _, _, _)
\* for link in links of process_links, to the end or to the first exception
LinksFold(version, api_url, st, ls, map, space, pid, ttl) ==
    IF ls = <<>> \/ st.err # "" THEN st
    ELSE Let(LinkIter(version, api_url, st.html, Head(ls), map, space, pid, ttl),
             LAMBDA r : LinksFold(version, api_url, r, Tail(ls), map, space,
                                  pid, ttl))

\* process_links as one call: the html it returns, or the exception
ProcessLinks(version, api_url, h, ls, map, space, pid, ttl) ==
    LinksFold(version, api_url, [html |-> h, err |-> ""], ls, map, space,
              pid, ttl)

\* ref_prefixes and ref_postfixes (lines 185-186)
ref_prefixes == [default |-> <<"#">>, bitbucket |-> <<"#", "markdown-header-">>]
ref_postfixes == [default |-> <<"_", "%d">>, bitbucket |-> <<"_", "%d">>]

\* "%s" % space_key, as process_links formats the space it is passed
\* (converter.py:557): add_local_refs passes it the integer space_id
SpaceArg(space) == DecStr(space)

-----------------------------------------------------------------------------
(* Inputs of add_local_refs *)

MaxItems == 3

\* --markdownsrc values, and a source the dicts do not hold
MdSources == {"default", "bitbucket", "unsupported"}

\* <h1>A</h1>, <h2>A</h2>, <a href="http://x.com">X</a>,
\* <a href="#markdown-header-a">A</a>
H1A == <<"<h1>", "A", "</h1>">>
H2A == <<"<h2>", "A", "</h2>">>
LinkX == <<AOpen, "http://x.com", AMid, "X", AClose>>
LinkBitbucketA == <<AOpen, "#", "markdown-header-", "a", AMid, "A", AClose>>

LocalRefItems == {H1A, H2A, LinkA, LinkB, LinkBitbucketA, LinkX}

\* the fields of a ConfluenceConverter
Converters ==
    [md_source : MdSources, space_key : SpaceKeys, org_name : {<<"test-org">>},
     use_ssl : {TRUE}, version : {1, 2}, title : Titles,
     ancestor : {<<>>}]

SpaceIds == {65537}

InitLocalRefs ==
    /\ fn = "add_local_refs"
    /\ pc = "start"
    /\ err = ""
    /\ self \in Converters
    /\ editor_version = self.version
    /\ NoHeaderArgs
    /\ headers_map = EmptyDict
    /\ i = 0
    /\ html_in \in {Concat(items) : items \in SeqsUpTo(LocalRefItems, MaxItems)}
    /\ html = html_in
    /\ links = <<>>
    /\ space_key = <<>>
    /\ page_id \in PageIds
    /\ space_id \in SpaceIds
    /\ title = self.title
    /\ quotes = <<>>
    /\ refs = <<>>
    /\ args = <<>>
    /\ calls = <<>>
    /\ page = <<>>
    /\ parent_page_id = 0
    /\ properties = <<>>
    /\ properties_for_update = <<>>
    /\ url = <<>>
    /\ first_html = <<>>

\* if self.md_source not in ref_prefixes or ... : return html (lines 189-200)
AddLocalRefsSource ==
    /\ fn = "add_local_refs"
    /\ pc = "start"
    /\ IF self.md_source \notin DOMAIN ref_prefixes
          \/ self.md_source \notin DOMAIN ref_postfixes
       THEN pc' = "returned" /\ UNCHANGED <<ref_prefix, ref_postfix>>
       ELSE /\ pc' = "headers"
            /\ ref_prefix' = ref_prefixes[self.md_source]
            /\ ref_postfix' = ref_postfixes[self.md_source]
    /\ UNCHANGED ccvars
    /\ UNCHANGED <<fn, err, editor_version, headers, i, headers_map,
                   headers_count, html_in, html, links, space_key, page_id,
                   title, quotes, refs>>

\* headers = re.findall(...); if not headers: return html;
\* headers_map = converter.process_headers(...) (lines 204-209)
AddLocalRefsHeaders ==
    /\ fn = "add_local_refs"
    /\ pc = "headers"
    /\ headers' = FindAllHeaders(html)
    /\ IF headers' = <<>>
       THEN pc' = "returned" /\ UNCHANGED <<headers_map, err, calls>>
       ELSE \E r \in {ProcessHeaders(editor_version, ref_prefix, ref_postfix,
                                     headers')} :
               /\ calls' = Append(calls, [fn |-> "process_headers",
                                          ref_prefix |-> ref_prefix,
                                          ref_postfix |-> ref_postfix,
                                          headers |-> headers'])
               /\ headers_map' = r.map
               /\ err' = r.err
               /\ pc' = IF r.err = "" THEN "links" ELSE "raised"
    /\ UNCHANGED <<fn, editor_version, ref_prefix, ref_postfix, i,
                   headers_count, html_in, html, links, space_key, page_id,
                   title, quotes, refs, self, args, space_id, page,
                   parent_page_id, properties, properties_for_update, url,
                   first_html>>

\* links = re.findall(...); if not links: return html;
\* html = converter.process_links(...); return html (lines 211-220)
AddLocalRefsLinks ==
    /\ fn = "add_local_refs"
    /\ pc = "links"
    /\ links' = FindAllLocalLinks(html)
    /\ IF links' = <<>>
       THEN pc' = "returned" /\ UNCHANGED <<html, err, calls>>
       ELSE \E r \in {ProcessLinks(editor_version, ApiUrl, html, links',
                                   headers_map, SpaceArg(space_id), page_id,
                                   title)} :
               /\ calls' = Append(calls, [fn |-> "process_links",
                                          html |-> html,
                                          links |-> links',
                                          headers_map |-> headers_map,
                                          space_key |-> SpaceArg(space_id),
                                          page_id |-> page_id,
                                          title |-> title])
               /\ html' = r.html
               /\ err' = r.err
               /\ pc' = IF r.err = "" THEN "returned" ELSE "raised"
    /\ UNCHANGED <<fn, editor_version, ref_prefix, ref_postfix, headers, i,
                   headers_map, headers_count, html_in, space_key, page_id,
                   title, quotes, refs, self, args, space_id, page,
                   parent_page_id, properties, properties_for_update, url,
                   first_html>>

NextLocalRefs == AddLocalRefsSource \/ AddLocalRefsHeaders \/ AddLocalRefsLinks

SpecLocalRefs == InitLocalRefs /\ [][NextLocalRefs]_vars

\* the calls made so far on the method named f
CallsOf(f) == SelectSeq(calls, LAMBDA c : c.fn = f)

\* the document holds a heading, a link to a local '#' target
HasHeading(h) == \E p \in 1..Len(h) : h[p] \in HOpenTags
HasLocalLink(h) == \E p \in 1..(Len(h) - 1) : h[p] = AOpen /\ h[p + 1] = "#"

AddLocalRefsRuns == fn = "add_local_refs"
AddLocalRefsReturned == fn = "add_local_refs" /\ pc = "returned"

\* C12: add_local_refs returns html unchanged (1) for a markdown source other
\* than default and bitbucket, with no call of process_headers or
\* process_links; (2) for html with no heading, with no call of either;
\* (3) for html with headings but no local '#' link, with process_headers
\* called (once) and process_links never.  In all three it does return.
C12_SkippedCasesUnchanged ==
    AddLocalRefsRuns =>
        /\ self.md_source \notin {"default", "bitbucket"}
           \/ ~HasHeading(html_in) =>
               /\ calls = <<>>
               /\ html = html_in
               /\ pc \in {"start", "headers", "returned"}
        /\ /\ self.md_source \in {"default", "bitbucket"}
           /\ HasHeading(html_in)
           /\ ~HasLocalLink(html_in)
           => /\ CallsOf("process_links") = <<>>
              /\ html = html_in
              /\ pc \in {"start", "headers", "links", "returned"}
              /\ pc \in {"links", "returned"} =>
                     Len(CallsOf("process_headers")) = 1

\* add_local_refs has returned html with headings, a link to another
\* document and no local link, after calling process_headers
C12_Witness ==
    /\ AddLocalRefsReturned
    /\ self.md_source = "bitbucket"
    /\ HasHeading(html_in) /\ Contains(html_in, LinkX)
    /\ ~HasLocalLink(html_in)
    /\ Len(calls) = 1 /\ calls[1].fn = "process_headers"
    /\ html = html_in

\* C13: every call of process_links made by add_local_refs passes the
\* converter's configured space key as the space argument, and the links it
\* has rewritten (editor version 2) lead to {apiUrl}/spaces/{spaceKey}/pages/.
C13_SpaceKeyPassed ==
    AddLocalRefsRuns =>
        /\ \A k \in 1..Len(calls) :
              calls[k].fn = "process_links" =>
                  calls[k].space_key = self.space_key
        /\ Count(html, <<AOpen>> \o ApiUrl)
             = Count(html, <<AOpen>> \o ApiUrl \o <<"/spaces/">>
                                \o self.space_key \o <<"/pages/">>)

\* what does hold: the space argument is the page's numeric space id, and
\* the rewritten links lead to {apiUrl}/spaces/{spaceId}/pages/
SpaceIdPassed ==
    AddLocalRefsRuns =>
        /\ \A k \in 1..Len(calls) :
              calls[k].fn = "process_links" =>
                  calls[k].space_key = DecStr(space_id)
        /\ Count(html, <<AOpen>> \o ApiUrl)
             = Count(html, <<AOpen>> \o ApiUrl \o <<"/spaces/">>
                                \o DecStr(space_id) \o <<"/pages/">>)

\* a link has been rewritten to a URL under the numeric space id
SpaceIdInUrl ==
    /\ AddLocalRefsReturned
    /\ Contains(html, <<AOpen>> \o ApiUrl \o <<"/spaces/">>
                          \o DecStr(space_id) \o <<"/pages/">>)

-----------------------------------------------------------------------------
(* The passes of MarkdownConverter.convert_md_to_conf_html                 *)
(* (src/md_to_conf/converter.py, lines 33-195 and 614-647)                 *)

\* "\n".join(html.split("\n")[1:]) (line 52): html without its first line
DropFirstLine(h) ==
    LET p == Find(h, <<"\n">>, 1)
    IN  IF p = 0 THEN <<>> ELSE From(h, p + 1)

\* <p>[TOC]</p> and the toc-zone macro that replaces it (lines 116-123)
TocMarker == <<P, "[TOC]", PEnd>>
TocZone ==
    <<P,
      "<ac:structured-macro ac:name=\"toc-zone\" ac:schema-version=\"1\" data-layout=\"default\">",
      RichTextBody,
      "<ac:structured-macro ac:name=\"toc\" ac:schema-version=\"1\" data-layout=\"default\"/>",
      RichTextBodyEnd, StructuredMacroEnd, PEnd>>

create_table_of_content(h) == Replace(h, TocMarker, TocZone)

\* the comment delimiters and what replaces them (lines 101-103)
CommentOpen == "<!--"
CommentClose == "-->"
PlaceholderOpen == "<ac:placeholder>"
PlaceholderClose == "</ac:placeholder>"

\* html.replace("<!--", open_tag).replace("-->", close_tag) on one token: the
\* doctoc markers are tokens that hold a delimiter
CommentTokWrapping(t) ==
    CASE t = CommentOpen -> <<PlaceholderOpen, CommentOpen>>
      [] t = CommentClose -> <<CommentClose, PlaceholderClose>>
      [] OTHER -> <<t>>
CommentTok(t) ==
    CASE t = CommentOpen -> <<PlaceholderOpen>>
      [] t = CommentClose -> <<PlaceholderClose>>
      [] t = DocTocStart -> <<PlaceholderOpen, " START doctoc">>
      [] t = DocTocEnd -> <<"END doctoc ", PlaceholderClose>>
      [] OTHER -> <<t>>

RECURSIVE convert_comment_block(_)
convert_comment_block(h) ==
    IF h = <<>> THEN <<>>
    ELSE CommentTok(Head(h)) \o convert_comment_block(Tail(h))

\* <pre><code>, <pre><code class="language-py"> and </code></pre>
CodeOpen == "<pre><code>"
CodeOpenPy == "<pre><code class=\"language-py\">"
CodeOpenTags == {CodeOpen, CodeOpenPy}
CodeClose == "</code></pre>"

RECURSIVE FindAllCodeBlocks(_)
\* re.findall(r"<pre><code.*?>.*?</code></pre>", html, re.DOTALL) (line 138)
FindAllCodeBlocks(h) ==
    LET hits == {p \in 1..Len(h) :
                    /\ h[p] \in CodeOpenTags
                    /\ \E q \in (p + 1)..Len(h) : h[q] = CodeClose}
        p == CHOOSE a \in hits : \A b \in hits : a <= b
        closes == {q \in (p + 1)..Len(h) : h[q] = CodeClose}
        q == CHOOSE a \in closes : \A b \in closes : a <= b
    IN  IF hits = {} THEN <<>>
        ELSE <<Slice(h, p, q)>>
             \o Let(From(h, q + 1), LAMBDA rest : FindAllCodeBlocks(rest))

\* re.search('code class="language-(.*)"', tag) (lines 149-153); the text of
\* a code block holds no '"' (the renderer writes &quot;), so the greedy
\* group ends at the quote that closes the class attribute
CodeLang(tag) == IF tag[1] = CodeOpenPy THEN "py" ELSE "none"

\* the four replaces of lines 170-171 on one word: &lt; then &gt; then &quot;
\* then &amp;, so that &amp;lt; ends as &lt;
UnescapeTok(t) ==
    CASE t = "&lt;" -> "<"
      [] t = "&gt;" -> ">"
      [] t = "&quot;" -> "\""
      [] t = "&amp;" -> "&"
      [] t = "&amp;lt;" -> "&lt;"
      [] t = "&lt;!--" -> CommentOpen
      [] t = "--&gt;" -> CommentClose
      [] OTHER -> t

Unescape(s) == [k \in 1..Len(s) |-> UnescapeTok(s[k])]

\* conf_ml of one code block (lines 141-171)
CodeMacro(tag) ==
    Unescape(<<"<ac:structured-macro ac:name=\"code\">",
               "<ac:parameter ac:name=\"theme\">Midnight</ac:parameter>",
               "<ac:parameter ac:name=\"linenumbers\">true</ac:parameter>",
               "<ac:parameter ac:name=\"language\">", CodeLang(tag),
               "</ac:parameter>", "<ac:plain-text-body><![CDATA[">>
             \o Slice(tag, 2, Len(tag) - 1)
             \o <<"]]></ac:plain-text-body>", StructuredMacroEnd>>)

RECURSIVE CodeFold(_, _)
\* for tag in code_blocks: html = html.replace(tag, conf_ml) (lines 140-173)
CodeFold(h, tags) ==
    IF tags = <<>> THEN h
    ELSE Let(Replace(h, Head(tags), CodeMacro(Head(tags))),
             LAMBDA r : CodeFold(r, Tail(tags)))

convert_code_block(h) == CodeFold(h, FindAllCodeBlocks(h))

\* the characters of the four ranges of remove_emojies: U+1F600 (emoticons)
\* and U+1F680 (transport) stand for them
Emojis == {"U+1F600", "U+1F680"}

\* regrex_pattern.sub(r"", html) (line 195)
remove_emojies(h) == Drop(h, Emojis)

\* contents_markup (lines 625-644)
ContentsMarkup ==
    <<StructuredMacro("toc"), "\n",
      "<ac:parameter ac:name=\"printable\">true</ac:parameter>", "\n",
      "<ac:parameter ac:name=\"style\">disc</ac:parameter>",
      "<ac:parameter ac:name=\"maxLevel\">5</ac:parameter>", "\n",
      "<ac:parameter ac:name=\"minLevel\">1</ac:parameter>",
      "<ac:parameter ac:name=\"class\">rm-contents</ac:parameter>", "\n",
      "<ac:parameter ac:name=\"exclude\"></ac:parameter>", "\n",
      "<ac:parameter ac:name=\"type\">list</ac:parameter>",
      "<ac:parameter ac:name=\"outline\">false</ac:parameter>", "\n",
      "<ac:parameter ac:name=\"include\"></ac:parameter>", "\n",
      StructuredMacroEnd>>

\* html = contents_markup + "\n" + html (line 646)
add_contents(h) == ContentsMarkup \o <<"\n">> \o h

RECURSIVE QuotesFold(_, _)
\* for quote in quotes of convert_info_macros, to the end or to the first
\* exception (lines 378-420)
QuotesFold(st, qs) ==
    IF qs = <<>> \/ st.err # "" THEN st
    ELSE Let(QuoteIter(st.html, Head(qs)),
             LAMBDA r : QuotesFold(r, Tail(qs)))

\* the heuristic blockquote step as a whole (lines 377-420)
HeuristicQuotes(h) ==
    QuotesFold([html |-> h, err |-> ""], FindAllBlockquotes(h))

RECURSIVE RefsFold(_, _)
\* for ref in refs of process_refs, to the end or to the first exception
RefsFold(st, rs) ==
    IF rs = <<>> \/ st.err # "" THEN st
    ELSE Let(RefIter(st.html, Head(rs)), LAMBDA r : RefsFold(r, Tail(rs)))

\* process_refs as one call: the html it returns, or the exception
process_refs(h) == RefsFold([html |-> h, err |-> ""], FindAllRefs(h))

-----------------------------------------------------------------------------
(* add_local_refs as one call, for its caller convert *)

\* the html add_local_refs returns, or the exception, and the calls it makes
\* on the MarkdownConverter (lines 185-220)
add_local_refs(md_source, version, api_url, pid, sid, ttl, h) ==
    IF md_source \notin DOMAIN ref_prefixes
          \/ md_source \notin DOMAIN ref_postfixes
    THEN [html |-> h, err |-> "", calls |-> <<>>]
    ELSE
    Let(FindAllHeaders(h), LAMBDA hs :
        IF hs = <<>> THEN [html |-> h, err |-> "", calls |-> <<>>]
        ELSE
        Let(ProcessHeaders(version, ref_prefixes[md_source],
                           ref_postfixes[md_source], hs), LAMBDA hm :
        Let(<<[fn |-> "process_headers",
               ref_prefix |-> ref_prefixes[md_source],
               ref_postfix |-> ref_postfixes[md_source],
               headers |-> hs]>>, LAMBDA c1 :
            IF hm.err # "" THEN [html |-> h, err |-> hm.err, calls |-> c1]
            ELSE
            Let(FindAllLocalLinks(h), LAMBDA ls :
                IF ls = <<>> THEN [html |-> h, err |-> "", calls |-> c1]
                ELSE
                Let(ProcessLinks(version, api_url, h, ls, hm.map,
                                 SpaceArg(sid), pid, ttl), LAMBDA r :
                    [html |-> r.html, err |-> r.err,
                     calls |-> Append(c1, [fn |-> "process_links",
                                           html |-> h,
                                           links |-> ls,
                                           headers_map |-> hm.map,
                                           space_key |-> SpaceArg(sid),
                                           page_id |-> pid,
                                           title |-> ttl])])))))

\* the step actions of add_local_refs and the one-call form agree
AddLocalRefsAsOneCall ==
    fn = "add_local_refs" /\ pc \in {"returned", "raised"} =>
        LET r == add_local_refs(self.md_source, editor_version, ApiUrl,
                                page_id, space_id, title, html_in)
        IN  /\ html = r.html
            /\ err = r.err
            /\ calls = r.calls

-----------------------------------------------------------------------------
(* ConfluenceConverter.get_confluence_api_url                              *)
(* (src/md_to_conf/confluence_converter.py, lines 270-279)                 *)

Https == "https://"
Http == "http://"

\* the url as lines 271-276 build it; "" when org_name is None
HttpsUrl(org_name) ==
    IF org_name = None THEN <<>>
    ELSE IF Contains(org_name, <<".">>) THEN <<Https>> \o org_name
    ELSE <<Https>> \o org_name \o <<".atlassian.net", "/wiki">>

\* if not self.use_ssl: url.replace("https://", "http://") (lines 277-278):
\* str.replace returns the new string, which the statement drops
DropReplaced(u, replaced) == u

get_confluence_api_url(org_name, use_ssl) ==
    Let(HttpsUrl(org_name), LAMBDA u :
        IF ~use_ssl THEN DropReplaced(u, Replace(u, <<Https>>, <<Http>>))
        ELSE u)

\* str.endswith("/wiki") (line 152)
EndsWithWiki(u) == u # <<>> /\ u[Len(u)] = "/wiki"

-----------------------------------------------------------------------------
(* Inputs of get_confluence_api_url *)

MaxOrgParts == 3

\* organisation names: words and dots, e.g. "acme" and "acme.example"
OrgNames == (SeqsUpTo({"acme", ".", "example"}, MaxOrgParts) \ {<<>>}) \cup {None}

InitApiUrl ==
    /\ fn = "get_confluence_api_url"
    /\ pc = "start"
    /\ err = ""
    /\ self \in [md_source : {"default"}, space_key : SpaceKeys,
                 org_name : OrgNames, use_ssl : BOOLEAN, version : {2},
                 title : {None}, ancestor : {<<>>}]
    /\ editor_version = 2
    /\ NoHeaderArgs
    /\ NoLinkArgs
    /\ i = 0
    /\ html_in = <<>>
    /\ html = <<>>
    /\ quotes = <<>>
    /\ refs = <<>>
    /\ args = <<>>
    /\ space_id = 0
    /\ calls = <<>>
    /\ page = <<>>
    /\ parent_page_id = 0
    /\ properties = <<>>
    /\ properties_for_update = <<>>
    /\ url = <<>>
    /\ first_html = <<>>

\* the whole method (lines 271-279)
GetConfluenceApiUrl ==
    /\ fn = "get_confluence_api_url"
    /\ pc = "start"
    /\ url' = get_confluence_api_url(self.org_name, self.use_ssl)
    /\ pc' = "returned"
    /\ UNCHANGED <<fn, err, editor_version, ref_prefix, ref_postfix, headers,
                   i, headers_map, headers_count, html_in, html, links,
                   space_key, page_id, title, quotes, refs, self, args,
                   space_id, calls, page, parent_page_id, properties,
                   properties_for_update, first_html>>

NextApiUrl == GetConfluenceApiUrl

SpecApiUrl == InitApiUrl /\ [][NextApiUrl]_vars

ApiUrlReturned == fn = "get_confluence_api_url" /\ pc = "returned"

\* C20: for an organisation name that is given, get_confluence_api_url
\* returns, with SSL disabled, http://<org>.atlassian.net/wiki for a name
\* without a dot and http://<org> for a name with a dot, and with SSL
\* enabled the same URLs with the https:// scheme.
C20_SchemeFollowsSsl ==
    ApiUrlReturned /\ self.org_name # None =>
        LET scheme == IF self.use_ssl THEN Https ELSE Http
        IN  url = IF Contains(self.org_name, <<".">>)
                  THEN <<scheme>> \o self.org_name
                  ELSE <<scheme>> \o self.org_name
                       \o <<".atlassian.net", "/wiki">>

\* what does hold: the URL has the https:// scheme whatever use_ssl is
AlwaysHttps ==
    ApiUrlReturned /\ self.org_name # None =>
        url = IF Contains(self.org_name, <<".">>)
              THEN <<Https>> \o self.org_name
              ELSE <<Https>> \o self.org_name \o <<".atlassian.net", "/wiki">>

-----------------------------------------------------------------------------
(* ConfluenceConverter.get_properties_to_update                            *)
(* (src/md_to_conf/confluence_converter.py, lines 222-268)                 *)

\* "v%d" % self.version
EditorValue(version) == <<"v">> \o DecStr(version)

\* an entry of properties_for_update, with the id of an existing property
\* (lines 239-244, 255-260) and without one (line 265)
UpdateOfSameVersion(key, value, existing_prop) ==
    [key |-> key, version |-> existing_prop.version.number,
     value |-> value, id |-> existing_prop.id]
UpdateOf(key, value, existing_prop) ==
    [key |-> key, version |-> existing_prop.version.number + 1,
     value |-> value, id |-> existing_prop.id]
NewProperty(key, value) == [key |-> key, version |-> 1, value |-> value]

RECURSIVE EditorUpdates(_, _)
\* the first loop (lines 233-245): the editor property when its value is not
\* that of the configured editor version
EditorUpdates(existing, version) ==
    IF existing = <<>> THEN <<>>
    ELSE (IF /\ Head(existing).key = <<"editor">>
             /\ Head(existing).value # EditorValue(version)
          THEN <<UpdateOf(<<"editor">>, EditorValue(version), Head(existing))>>
          ELSE <<>>)
         \o EditorUpdates(Tail(existing), version)

RECURSIVE UpdatesOfKey(_, _, _)
\* the inner loop (lines 252-262): an entry for every existing property of
\* this key
UpdatesOfKey(key, value, existing) ==
    IF existing = <<>> THEN <<>>
    ELSE (IF Head(existing).key = key
          THEN <<UpdateOf(key, value, Head(existing))>>
          ELSE <<>>)
         \o UpdatesOfKey(key, value, Tail(existing))

RECURSIVE RequestedUpdates(_, _)
\* for key in props (lines 250-266); props as the sequence of its items
RequestedUpdates(props, existing) ==
    IF props = <<>> THEN <<>>
    ELSE Let(UpdatesOfKey(Head(props)[1], Head(props)[2], existing),
             LAMBDA found :
                 IF found # <<>> THEN found
                 ELSE <<NewProperty(Head(props)[1], Head(props)[2])>>)
         \o RequestedUpdates(Tail(props), existing)

\* the list returned for the requested props and the properties the client
\* returned (lines 232-268)
get_properties_to_update(version, props, existing) ==
    EditorUpdates(existing, version) \o RequestedUpdates(props, existing)


\* PageInfo(id, spaceId, version, link) (client.py, lines 27-43)
PageInfo(id, spaceId, version, link) ==
    [id |-> id, spaceId |-> spaceId, version |-> version, link |-> link]

\* the page get_page and create_page return when there is none
\* (client.py, lines 277, 336)
NoPage == PageInfo(0, 0, 0, <<>>)
ExistingPage == PageInfo(12345, 65537, 7, <<"/spaces/TEST/pages/12345">>)
CreatedPage == PageInfo(777, 65537, 1, <<"/spaces/TEST/pages/777">>)

MaxProps == 2
PropKeys == {<<"editor">>, <<"owner">>}
PropValues == {<<"v", "2">>, <<"x">>}
PropVersions == {1, 3}
PropId(key) == IF key = <<"editor">> THEN "p1" ELSE "p2"

DistinctKeys(s, KeyOf(_)) ==
    \A a, b \in 1..Len(s) : KeyOf(s[a]) = KeyOf(s[b]) => a = b
ItemKey(item) == item[1]
PropKey(p) == p.key

\* the --property arguments as the items of the dict, in insertion order
PropsArgs ==
    {s \in SeqsUpTo(PropKeys \X PropValues, MaxProps) : DistinctKeys(s, ItemKey)}

\* what GET /pages/{id}/properties returns: one property per key
ExistingProperty ==
    {[key |-> k, value |-> v, version |-> [number |-> n], id |-> PropId(k)] :
        k \in PropKeys, v \in {<<"v", "1">>, <<"v", "2">>}, n \in PropVersions}
PagePropertyLists ==
    {s \in SeqsUpTo(ExistingProperty, MaxProps) : DistinctKeys(s, PropKey)}

InitProperties ==
    /\ fn = "get_properties_to_update"
    /\ pc = "start"
    /\ err = ""
    /\ self \in [version : {1, 2}]
    /\ args \in [properties : PropsArgs]
    /\ page \in {ExistingPage, CreatedPage}
    /\ editor_version = self.version
    /\ NoHeaderArgs
    /\ NoLinkArgs
    /\ i = 0
    /\ html_in = <<>>
    /\ html = <<>>
    /\ quotes = <<>>
    /\ refs = <<>>
    /\ space_id = 0
    /\ calls = <<>>
    /\ parent_page_id = 0
    /\ properties = <<>>
    /\ properties_for_update = <<>>
    /\ url = <<>>
    /\ first_html = <<>>

\* the whole method (lines 231-268); the client answers with the page's
\* properties, or with none on a 404 (client.py, lines 351-357)
GetPropertiesToUpdate ==
    /\ fn = "get_properties_to_update"
    /\ pc = "start"
    /\ calls' = Append(calls, [fn |-> "get_page_properties", page_id |-> page.id])
    /\ \E existing \in PagePropertyLists :
        /\ properties' = existing
        /\ properties_for_update' =
               get_properties_to_update(self.version, args.properties, existing)
    /\ pc' = "returned"
    /\ UNCHANGED <<fn, err, editor_version, ref_prefix, ref_postfix, headers,
                   i, headers_map, headers_count, html_in, html, links,
                   space_key, page_id, title, quotes, refs, self, args,
                   space_id, page, parent_page_id, url, first_html>>

\* any other HTTP error ends the program in check_errors_and_get_json
\* (client.py, lines 152-160)
GetPropertiesToUpdateExit ==
    /\ fn = "get_properties_to_update"
    /\ pc = "start"
    /\ calls' = Append(calls, [fn |-> "get_page_properties", page_id |-> page.id])
    /\ pc' = "raised"
    /\ err' = "SystemExit"
    /\ UNCHANGED <<fn, editor_version, ref_prefix, ref_postfix, headers,
                   i, headers_map, headers_count, html_in, html, links,
                   space_key, page_id, title, quotes, refs, self, args,
                   space_id, page, parent_page_id, properties,
                   properties_for_update, url, first_html>>

NextProperties == GetPropertiesToUpdate \/ GetPropertiesToUpdateExit

SpecProperties == InitProperties /\ [][NextProperties]_vars

PropertiesReturned == fn = "get_properties_to_update" /\ pc = "returned"

\* the entries the three rules of the method ask for
EditorDiffers(p) ==
    p.key = <<"editor">> /\ p.value # EditorValue(self.version)
IsEditorUpdate(e, p) ==
    /\ EditorDiffers(p)
    /\ e = [key |-> <<"editor">>, version |-> p.version.number + 1,
            value |-> EditorValue(self.version), id |-> p.id]
IsRequestedUpdate(e, item, p) ==
    /\ p.key = item[1]
    /\ e = [key |-> item[1], version |-> p.version.number + 1,
            value |-> item[2], id |-> p.id]
KeyExists(key) == \E k \in 1..Len(properties) : properties[k].key = key
IsRequestedNew(e, item) ==
    /\ ~KeyExists(item[1])
    /\ DOMAIN e = {"key", "version", "value"}
    /\ e.key = item[1] /\ e.version = 1 /\ e.value = item[2]

EditorEntries ==
    {k \in 1..Len(properties) : EditorDiffers(properties[k])}

\* C17: get_properties_to_update returns an editor update (existing id,
\* existing version + 1, value v<version>) exactly when an existing editor
\* property differs from the configured version, for every requested property
\* one entry (existing id, version + 1 and the requested value when the key
\* exists; version 1 and no id when it does not), and nothing else
C17_PropertiesToUpdate ==
    PropertiesReturned =>
        /\ \A n \in 1..Len(properties_for_update) :
            \/ \E k \in 1..Len(properties) :
                   IsEditorUpdate(properties_for_update[n], properties[k])
            \/ \E a \in 1..Len(args.properties), k \in 1..Len(properties) :
                   IsRequestedUpdate(properties_for_update[n],
                                     args.properties[a], properties[k])
            \/ \E a \in 1..Len(args.properties) :
                   IsRequestedNew(properties_for_update[n], args.properties[a])
        /\ \A k \in EditorEntries :
               \E n \in 1..Len(properties_for_update) :
                   IsEditorUpdate(properties_for_update[n], properties[k])
        /\ \A a \in 1..Len(args.properties) :
               \E n \in 1..Len(properties_for_update) :
                   \/ IsRequestedNew(properties_for_update[n], args.properties[a])
                   \/ \E k \in 1..Len(properties) :
                          IsRequestedUpdate(properties_for_update[n],
                                            args.properties[a], properties[k])
        /\ Len(properties_for_update) =
               Cardinality(EditorEntries) + Len(args.properties)

\* an editor update, an update of an existing key and a new property in one
\* result
C17_Witness ==
    /\ PropertiesReturned
    /\ Len(properties_for_update) = 3
    /\ \E k \in 1..Len(properties) :
           IsEditorUpdate(properties_for_update[1], properties[k])
    /\ \E n \in 2..3, a \in 1..2 :
           IsRequestedNew(properties_for_update[n], args.properties[a])
    /\ \E n \in 2..3, a \in 1..2, k \in 1..Len(properties) :
           IsRequestedUpdate(properties_for_update[n], args.properties[a],
                             properties[k])

-----------------------------------------------------------------------------
(* MarkdownConverter.convert_md_to_conf_html, pass by pass                 *)
(* (src/md_to_conf/converter.py, lines 33-68)                              *)

\* the two publishers: ConfluenceConverter.convert and the main of the
\* command line, which run the same statements once the page is known
Publishers == {"convert", "main"}
\* the methods that run the passes: both publishers call
\* convert_md_to_conf_html
PipelineFns == Publishers \cup {"convert_md_to_conf_html"}

\* has_title: the argument, which convert sets from self.title
\* (confluence_converter.py, lines 59-66)
HasTitle == IF fn \in Publishers THEN self.title # None ELSE args.has_title

\* locals of the MarkdownConverter methods that the passes run as whole calls
mdlocals == <<ref_prefix, ref_postfix, headers, i, headers_map,
              headers_count, links, space_key, page_id, quotes, refs>>

\* what no pass assigns
passframe == <<fn, editor_version, html_in, title, self, args, space_id,
               page, parent_page_id, properties, properties_for_update, url,
               first_html>>

\* the pass after convert_code_block and after remove_emojies (lines 61-67)
AfterCodeBlockContentsFirst(a) ==
    IF a.add_contents THEN "add_contents"
    ELSE IF a.remove_emojies THEN "remove_emojies" ELSE "process_refs"
AfterEmojis(a) == IF a.add_contents THEN "add_contents" ELSE "process_refs"
AfterCodeBlock(a) ==
    IF a.remove_emojies THEN "remove_emojies" ELSE AfterEmojis(a)

\* html = self.get_html_from_markdown(); without a title the first line,
\* which holds it, is dropped (lines 50-52)
GetHtmlFromMarkdown ==
    /\ fn \in PipelineFns
    /\ pc = "get_html_from_markdown"
    /\ html' = IF HasTitle THEN html_in ELSE DropFirstLine(html_in)
    /\ calls' = Append(calls, [fn |-> "get_html_from_markdown"])
    /\ pc' = "create_table_of_content"
    /\ UNCHANGED <<err, mdlocals, passframe>>

\* line 56
PassTableOfContent ==
    /\ fn \in PipelineFns
    /\ pc = "create_table_of_content"
    /\ html' = create_table_of_content(html)
    /\ calls' = Append(calls, [fn |-> "create_table_of_content"])
    /\ pc' = "convert_github_alerts"
    /\ UNCHANGED <<err, mdlocals, passframe>>

\* line 57, convert_info_macros: html = self.convert_github_alerts(html)
\* (line 367)
PassGithubAlerts ==
    /\ fn \in PipelineFns
    /\ pc = "convert_github_alerts"
    /\ html' = ConvertGithubAlerts(html)
    /\ calls' = calls \o <<[fn |-> "convert_info_macros"],
                           [fn |-> "convert_github_alerts"]>>
    /\ pc' = "custom_tags"
    /\ UNCHANGED <<err, mdlocals, passframe>>

\* convert_info_macros: the custom delimiters (lines 369-374)
PassCustomTags ==
    /\ fn \in PipelineFns
    /\ pc = "custom_tags"
    /\ html' = CustomTags(html)
    /\ pc' = "blockquotes"
    /\ UNCHANGED <<err, calls, mdlocals, passframe>>

\* convert_info_macros: the heuristic blockquote loop (lines 377-420)
PassBlockquotes ==
    /\ fn \in PipelineFns
    /\ pc = "blockquotes"
    /\ \E r \in {HeuristicQuotes(html)} :
           /\ html' = r.html
           /\ err' = r.err
           /\ pc' = IF r.err = "" THEN "convert_doctoc" ELSE "raised"
    /\ UNCHANGED <<calls, mdlocals, passframe>>

\* convert_info_macros: html = self.convert_doctoc(html) (line 423)
PassDoctoc ==
    /\ fn \in PipelineFns
    /\ pc = "convert_doctoc"
    /\ html' = convert_doctoc(html)
    /\ calls' = Append(calls, [fn |-> "convert_doctoc"])
    /\ pc' = "convert_comment_block"
    /\ UNCHANGED <<err, mdlocals, passframe>>

\* line 58
PassCommentBlock ==
    /\ fn \in PipelineFns
    /\ pc = "convert_comment_block"
    /\ html' = convert_comment_block(html)
    /\ calls' = Append(calls, [fn |-> "convert_comment_block"])
    /\ pc' = "convert_code_block"
    /\ UNCHANGED <<err, mdlocals, passframe>>

\* line 59, and the flags that choose the next pass (lines 61-65)
PassCodeBlock ==
    /\ fn \in PipelineFns
    /\ pc = "convert_code_block"
    /\ html' = convert_code_block(html)
    /\ calls' = Append(calls, [fn |-> "convert_code_block"])
    /\ pc' = AfterCodeBlock(args)
    /\ UNCHANGED <<err, mdlocals, passframe>>

\* lines 61-62
PassRemoveEmojies ==
    /\ fn \in PipelineFns
    /\ pc = "remove_emojies"
    /\ html' = remove_emojies(html)
    /\ calls' = Append(calls, [fn |-> "remove_emojies"])
    /\ pc' = AfterEmojis(args)
    /\ UNCHANGED <<err, mdlocals, passframe>>

\* lines 64-65
PassAddContents ==
    /\ fn \in PipelineFns
    /\ pc = "add_contents"
    /\ html' = add_contents(html)
    /\ calls' = Append(calls, [fn |-> "add_contents"])
    /\ pc' = "process_refs"
    /\ UNCHANGED <<err, mdlocals, passframe>>

\* html = self.process_refs(html); return html (lines 67-68)
PassProcessRefs ==
    /\ fn \in PipelineFns
    /\ pc = "process_refs"
    /\ \E r \in {process_refs(html)} :
           /\ html' = r.html
           /\ err' = r.err
           /\ pc' = IF r.err # "" THEN "raised"
                    ELSE IF fn \in Publishers THEN "converted" ELSE "returned"
    /\ calls' = Append(calls, [fn |-> "process_refs"])
    /\ UNCHANGED <<mdlocals, passframe>>

\* the passes without the two that the flags choose
PlainPasses ==
    \/ PassTableOfContent
    \/ PassGithubAlerts
    \/ PassCustomTags
    \/ PassBlockquotes
    \/ PassDoctoc
    \/ PassCommentBlock
    \/ PassCodeBlock
    \/ PassProcessRefs

-----------------------------------------------------------------------------
(* Inputs: documents as the Markdown renderer writes them, the title in    *)
(* the first line and one block per line after it                          *)

MaxBlocks == 2

TitleLine == <<"<h1>", "Doc", "</h1>">>
\* <!-- c -->
CommentBlock == <<CommentOpen, " ", "c", " ", CommentClose>>
\* a fenced code block: x &lt; y
CodePy == <<CodeOpenPy, "x", " ", "&lt;", " ", "y", "\n", CodeClose>>
\* a fenced code block that shows an HTML comment: &lt;!-- x --&gt;
CodeWithComment ==
    <<CodeOpen, "&lt;!--", " ", "x", " ", "--&gt;", "\n", CodeClose>>
\* a fenced code block that shows an entity: &amp;lt;
CodeWithEntity == <<CodeOpen, "&amp;lt;", "\n", CodeClose>>

PipelineBlocks ==
    {TocMarker, Blockquote(LabelPara("Warning")), Blockquote(AlertPara("NOTE")),
     Blockquote(AlertPara("UNKNOWN")), <<P, "~?", "text", "?~", PEnd>>,
     CommentBlock, DocTocBlock, CodePy, CodeWithComment, CodeWithEntity,
     TextLine(<<"1">>), ParaDef(<<"1">>), NoLinkDef}

PipelineDocs ==
    {JoinLines(<<TitleLine>> \o blocks) :
        blocks \in SeqsUpTo(PipelineBlocks, MaxBlocks)}

InitPipeline ==
    /\ fn = "convert_md_to_conf_html"
    /\ pc = "get_html_from_markdown"
    /\ err = ""
    /\ editor_version \in {2}
    /\ NoHeaderArgs
    /\ NoLinkArgs
    /\ i = 0
    /\ html_in \in PipelineDocs
    /\ html = <<>>
    /\ quotes = <<>>
    /\ refs = <<>>
    /\ self = <<>>
    /\ args \in [has_title : BOOLEAN, remove_emojies : {FALSE},
                 add_contents : {FALSE}]
    /\ space_id = 0
    /\ calls = <<>>
    /\ page = <<>>
    /\ parent_page_id = 0
    /\ properties = <<>>
    /\ properties_for_update = <<>>
    /\ url = <<>>
    /\ first_html = <<>>

\* the ordered passes (lines 56-67) applied again to the html they returned
ApplyPassesAgain ==
    /\ fn = "convert_md_to_conf_html"
    /\ pc = "returned"
    /\ CallsOf("apply_again") = <<>>
    /\ first_html' = html
    /\ calls' = Append(calls, [fn |-> "apply_again"])
    /\ pc' = "create_table_of_content"
    /\ UNCHANGED <<fn, err, editor_version, html_in, html, title, self, args,
                   space_id, page, parent_page_id, properties,
                   properties_for_update, url, mdlocals>>

NextPipeline == GetHtmlFromMarkdown \/ PlainPasses \/ ApplyPassesAgain

SpecPipeline == InitPipeline /\ [][NextPipeline]_vars

\* the passes have been applied twice and have returned both times
AppliedTwice ==
    /\ fn = "convert_md_to_conf_html"
    /\ pc = "returned"
    /\ CallsOf("apply_again") # <<>>

EscapedDelimiters == {"&lt;!--", "--&gt;"}
HasEscapedDelimiter(h) == \E k \in 1..Len(h) : h[k] \in EscapedDelimiters

CodeCommentReconverted ==
    /\ AppliedTwice
    /\ Contains(first_html, <<"<ac:plain-text-body><![CDATA[", CommentOpen>>)
    /\ Contains(html, <<"<ac:plain-text-body><![CDATA[", PlaceholderOpen>>)

-----------------------------------------------------------------------------
(* ConfluenceConverter.add_images                                          *)
(* (src/md_to_conf/confluence_converter.py, lines 134-162)                 *)

ImgOpen == "<img"
ImgClose == "/>"
AltAttr == " alt=\""
SrcAttr == "\" src=\""
AttrEnd == "\" "

RECURSIVE FindAllImages(_)
\* re.findall(r"<img(.*?)\/>", html): what stands between <img and the next
\* /> of the same line
FindAllImages(h) ==
    LET hits == {p \in 1..Len(h) :
                    /\ h[p] = ImgOpen
                    /\ \E q \in (p + 1)..Len(h) :
                           /\ h[q] = ImgClose
                           /\ \A k \in p..q : h[k] # "\n"}
        p == CHOOSE a \in hits : \A b \in hits : a <= b
        closes == {q \in (p + 1)..Len(h) : h[q] = ImgClose}
        q == CHOOSE a \in closes : \A b \in closes : a <= b
    IN  IF hits = {} THEN <<>>
        ELSE <<Slice(h, p + 1, q - 1)>>
             \o Let(From(h, q + 1), LAMBDA rest : FindAllImages(rest))

\* re.search(r'src="(.*?)"', tag) and re.search(r'alt="(.*?)"', tag): the
\* position of the attribute, 0 when the tag has none
AttrAt(tag, attr) == Find(tag, <<attr>>, 1)
AttrValue(tag, attr) ==
    LET a == AttrAt(tag, attr)
        ends == {q \in (a + 1)..Len(tag) : tag[q] \in {SrcAttr, AttrEnd}}
        e == CHOOSE x \in ends : \A y \in ends : x <= y
    IN  Slice(tag, a + 1, e - 1)

\* os.path.basename(rel_path): a path is its directories, each with its
\* slash, and the file name
Basename(path) == <<path[Len(path)]>>

\* re.search(r"http.*", rel_path)
HttpHosts == {"http://x.com/"}
IsHttp(path) == \E k \in 1..Len(path) : path[k] \in HttpHosts

\* "/wiki/download/attachments/%d/%s" % (page_id, basename), or without
\* /wiki (lines 152-161)
AttachmentPath(api_url, pid, path) ==
    (IF EndsWithWiki(api_url) THEN <<"/wiki">> ELSE <<>>)
    \o <<"/download/attachments/">> \o DecStr(pid) \o <<"/">> \o Basename(path)

\* the body of the loop for one tag (lines 146-161)
ImageIter(st, api_url, pid, tag) ==
    IF AttrAt(tag, SrcAttr) = 0 \/ AttrAt(tag, AltAttr) = 0
    THEN [st EXCEPT !.err = "AttributeError"]
    ELSE Let(AttrValue(tag, SrcAttr), LAMBDA rel_path :
           [html |-> IF IsHttp(rel_path) THEN st.html
                     ELSE Replace(st.html, rel_path,
                                  AttachmentPath(api_url, pid, rel_path)),
            err |-> "",
            calls |-> Append(st.calls,
                             [fn |-> "upload_attachment", page_id |-> pid,
                              file |-> rel_path,
                              comment |-> AttrValue(tag, AltAttr)])])

RECURSIVE ImagesFold(_, _, _, _)
ImagesFold(st, api_url, pid, tags) ==
    IF tags = <<>> \/ st.err # "" THEN st
    ELSE Let(ImageIter(st, api_url, pid, Head(tags)),
             LAMBDA r : ImagesFold(r, api_url, pid, Tail(tags)))

\* add_images as one call: the html it returns and the uploads it asks for
add_images(api_url, pid, h) ==
    ImagesFold([html |-> h, err |-> "", calls |-> <<>>], api_url, pid,
               FindAllImages(h))

-----------------------------------------------------------------------------
(* ConfluenceConverter.convert                                             *)
(* (src/md_to_conf/confluence_converter.py, lines 45-117)                  *)

\* the attributes __init__ assigns (lines 31-43)
ConverterAttributes ==
    {"file", "md_source", "source_folder", "org_name", "use_ssl", "user_name",
     "api_key", "version", "ancestor", "title", "space_key",
     "confluence_client"}

\* mdfile.readline().lstrip("#").strip(): the heading of the first line
FileTitle(h) ==
    LET p == Find(h, <<"\n">>, 1)
        line == IF p = 0 THEN h ELSE Slice(h, 1, p - 1)
    IN  Drop(line, {"<h1>", "</h1>"})

\* <img alt="pic" src="img/pic.png" />
ImgPic == <<ImgOpen, AltAttr, "pic", SrcAttr, "img/", "pic.png", AttrEnd, ImgClose>>
\* <img alt="web" src="http://x.com/p.png" />
ImgHttp == <<ImgOpen, AltAttr, "web", SrcAttr, "http://x.com/", "p.png", AttrEnd, ImgClose>>
\* <img alt="none" />
ImgNoSrc == <<ImgOpen, AltAttr, "none", AttrEnd, ImgClose>>
EmojiPara == <<P, "go", " ", "U+1F680", PEnd>>

ConvertDocs ==
    {JoinLines(<<TitleLine>> \o blocks) :
        blocks \in {<<H2A, <<P>> \o LinkA \o <<PEnd>>>>,
                    <<TocMarker, CodeWithComment, CommentBlock>>,
                    <<<<P>> \o ImgPic \o <<PEnd>>, EmojiPara>>,
                    <<<<P>> \o ImgPic \o ImgHttp \o <<PEnd>>,
                      Blockquote(LabelPara("Warning"))>>,
                    <<TextLine(<<"1">>), ParaDef(<<"1">>), EmojiPara>>,
                    <<<<P>> \o ImgNoSrc \o <<PEnd>>>>,
                    <<PlainPara, NoLinkDef>>}}

ParentPage == PageInfo(99, 65537, 3, <<"/spaces/TEST/pages/99">>)

\* what the client may hold of the page: its properties
ConvertPropertyLists ==
    {<<>>,
     <<[key |-> <<"editor">>, value |-> <<"v", "1">>,
        version |-> [number |-> 1], id |-> "p1"]>>,
     <<[key |-> <<"editor">>, value |-> <<"v", "2">>,
        version |-> [number |-> 1], id |-> "p1"],
       [key |-> <<"owner">>, value |-> <<"v", "1">>,
        version |-> [number |-> 3], id |-> "p2"]>>}

\* the arguments of convert that choose what follows the page update
NoExtras == [labels |-> None, properties |-> <<>>, attachments |-> <<>>]
AllExtras ==
    [labels |-> <<"l1", "l2">>,
     properties |-> <<<<<<"owner">>, <<"x">>>>, <<<<"status">>, <<"x">>>>>>,
     attachments |-> <<"a.txt", "b.txt">>]

ConvertArgs ==
    {[simulate |-> s, delete |-> d, remove_emojies |-> f[1],
      add_contents |-> f[2], labels |-> x.labels,
      properties |-> x.properties, attachments |-> x.attachments] :
        s \in BOOLEAN, d \in BOOLEAN,
        f \in {<<FALSE, FALSE>>, <<TRUE, FALSE>>, <<TRUE, TRUE>>},
        x \in {NoExtras, AllExtras}}

InitConvert ==
    /\ fn = "convert"
    /\ pc = "start"
    /\ err = ""
    /\ self \in [md_source : {"default"}, space_key : {<<"TEST">>},
                 org_name : {<<"test-org">>}, use_ssl : {TRUE}, version : {2},
                 title : {None, <<"Test", " ", "Page">>},
                 ancestor : {<<>>, <<"Parent">>}]
    /\ args \in ConvertArgs
    /\ editor_version = self.version
    /\ NoHeaderArgs
    /\ NoLinkArgs
    /\ i = 0
    /\ html_in \in ConvertDocs
    /\ html = <<>>
    /\ quotes = <<>>
    /\ refs = <<>>
    /\ space_id = 0
    /\ calls = <<>>
    /\ page = <<>>
    /\ parent_page_id = 0
    /\ properties = <<>>
    /\ properties_for_update = <<>>
    /\ url = <<>>
    /\ first_html = <<>>

\* what a call of the client gives back: its value, or the exit of
\* check_errors_and_get_json (client.py, lines 152-160)
Returned(ok, value) == IF ok THEN value ELSE [exits |-> "SystemExit"]

\* if simulate: (line 76)
SimulatingNever(a) == FALSE
Simulating(a) == a.simulate

\* if page.id == 0: (line 89)
NeedsCreateAlways(p) == TRUE
NeedsCreate(p) == p.id = 0

\* what the statements of convert after the conversion do not assign
convframe == <<fn, editor_version, html_in, title, self, args, url,
               first_html, mdlocals>>

\* the MarkdownConverter and the title (lines 55-66)
ConvertStart ==
    /\ fn = "convert"
    /\ pc = "start"
    /\ url' = get_confluence_api_url(self.org_name, self.use_ssl)
    /\ title' = IF self.title # None THEN self.title ELSE FileTitle(html_in)
    /\ pc' = "get_html_from_markdown"
    /\ UNCHANGED <<fn, err, editor_version, html_in, html, self, args,
                   space_id, calls, page, parent_page_id, properties,
                   properties_for_update, first_html, mdlocals>>

\* if simulate: return (lines 76-78)
ConvertSimulate ==
    /\ fn = "convert"
    /\ pc = "converted"
    /\ Simulating(args)
    /\ pc' = "returned"
    /\ UNCHANGED <<err, html, space_id, calls, page, parent_page_id,
                   properties, properties_for_update, convframe>>

\* page = self.confluence_client.get_page(title) (line 81)
ConvertGetPage ==
    /\ fn \in Publishers
    /\ pc = "converted"
    /\ ~Simulating(args)
    /\ \E found \in {ExistingPage, NoPage}, ok \in BOOLEAN :
           /\ calls' = Append(calls, [fn |-> "get_page", title |-> title,
                                      returns |-> Returned(ok, found)])
           /\ IF ok THEN page' = found /\ pc' = "delete" /\ err' = err
              ELSE page' = page /\ pc' = "raised" /\ err' = "SystemExit"
    /\ UNCHANGED <<html, space_id, parent_page_id, properties,
                   properties_for_update, convframe>>

\* if delete and page is not None and page.id > 0:
\*     self.client.delete_page(page.id); return (lines 83-85)
ConvertDelete ==
    /\ fn = "convert"
    /\ pc = "delete"
    /\ args.delete /\ page.id > 0
    /\ IF "client" \in ConverterAttributes
       THEN /\ calls' = Append(calls, [fn |-> "delete_page",
                                       page_id |-> page.id])
            /\ pc' = "returned"
            /\ err' = err
       ELSE /\ calls' = calls
            /\ pc' = "raised"
            /\ err' = "AttributeError"
    /\ UNCHANGED <<html, space_id, page, parent_page_id, properties,
                   properties_for_update, convframe>>

\* parent_page_id = self.get_parent_page() (lines 87, 299-308)
ConvertGetParentPage ==
    /\ fn = "convert"
    /\ pc = "delete"
    /\ ~(args.delete /\ page.id > 0)
    /\ IF self.ancestor # <<>>
       THEN \E parent_page \in {ParentPage, NoPage}, ok \in BOOLEAN :
                /\ calls' = Append(calls,
                                   [fn |-> "get_page",
                                    title |-> self.ancestor,
                                    returns |-> Returned(ok, parent_page)])
                /\ IF ok
                   THEN /\ parent_page_id' = parent_page.id
                        /\ pc' = "create_page"
                        /\ err' = err
                   ELSE /\ parent_page_id' = parent_page_id
                        /\ pc' = "raised"
                        /\ err' = "SystemExit"
       ELSE /\ calls' = calls
            /\ parent_page_id' = 0
            /\ pc' = "create_page"
            /\ err' = err
    /\ UNCHANGED <<html, space_id, page, properties, properties_for_update,
                   convframe>>

\* if page.id == 0: page = create_page(title, html, parent_page_id)
\* (lines 89-90)
ConvertCreatePage ==
    /\ fn \in Publishers
    /\ pc = "create_page"
    /\ IF NeedsCreate(page)
       THEN \E created \in {CreatedPage, NoPage}, ok \in BOOLEAN :
                /\ calls' = Append(calls,
                                   [fn |-> "create_page", title |-> title,
                                    body |-> html,
                                    parent_id |-> parent_page_id,
                                    returns |-> Returned(ok, created)])
                /\ IF ok THEN page' = created /\ pc' = "add_images"
                              /\ err' = err
                   ELSE page' = page /\ pc' = "raised"
                        /\ err' = "SystemExit"
       ELSE /\ calls' = calls
            /\ page' = page
            /\ pc' = "add_images"
            /\ err' = err
    /\ UNCHANGED <<html, space_id, parent_page_id, properties,
                   properties_for_update, convframe>>

\* html = self.add_images(page.id, html) (line 93); an upload that the
\* server refuses ends the run with the HTTPError of raise_for_status
\* (client.py, line 484)
ConvertAddImages ==
    /\ fn \in Publishers
    /\ pc = "add_images"
    /\ \E r \in {add_images(url, page.id, html)} :
           \/ /\ html' = r.html
              /\ calls' = calls \o r.calls
              /\ err' = r.err
              /\ pc' = IF r.err = "" THEN "add_local_refs" ELSE "raised"
           \/ /\ r.calls # <<>>
              /\ html' = html
              /\ calls' = Append(calls, r.calls[1])
              /\ err' = "HTTPError"
              /\ pc' = "raised"
    /\ UNCHANGED <<space_id, page, parent_page_id, properties,
                   properties_for_update, convframe>>

\* html = self.add_local_refs(page.id, page.spaceId, title, html, converter)
\* (line 95)
ConvertAddLocalRefs ==
    /\ fn \in Publishers
    /\ pc = "add_local_refs"
    /\ space_id' = page.spaceId
    /\ \E r \in {add_local_refs(self.md_source, self.version, url, page.id,
                                page.spaceId, title, html)} :
           /\ html' = r.html
           /\ calls' = Append(calls, [fn |-> "add_local_refs"]) \o r.calls
           /\ err' = r.err
           /\ pc' = IF r.err = "" THEN "update_page" ELSE "raised"
    /\ UNCHANGED <<page, parent_page_id, properties, properties_for_update,
                   convframe>>

\* self.confluence_client.update_page(page.id, title, html, page.version,
\*                                    parent_page_id) (lines 97-99)
ConvertUpdatePage ==
    /\ fn \in Publishers
    /\ pc = "update_page"
    /\ calls' = Append(calls, [fn |-> "update_page", page_id |-> page.id,
                               title |-> title, body |-> html,
                               version |-> page.version,
                               parent_id |-> parent_page_id])
    /\ \E ok \in BOOLEAN :
           IF ok THEN pc' = "properties" /\ err' = err
           ELSE pc' = "raised" /\ err' = "SystemExit"
    /\ UNCHANGED <<html, space_id, page, parent_page_id, properties,
                   properties_for_update, convframe>>

\* the calls of update_page_property, one for each entry (lines 103-109)
PropertyCalls(pid, entries) ==
    [k \in 1..Len(entries) |->
        [fn |-> "update_page_property", page_id |-> pid,
         page_property |-> entries[k]]]

\* properties_for_update = self.get_properties_to_update(properties,
\* page.id) and the update of each of them (lines 101-109)
ConvertProperties ==
    /\ fn \in Publishers
    /\ pc = "properties"
    /\ \E existing \in ConvertPropertyLists,
          failed \in {"", "get_page_properties", "update_page_property"} :
           \E r \in {get_properties_to_update(self.version, args.properties,
                                              existing)} :
               /\ failed = "update_page_property" => r # <<>>
               /\ properties' =
                      IF failed = "get_page_properties" THEN properties
                      ELSE existing
               /\ properties_for_update' =
                      IF failed = "get_page_properties"
                      THEN properties_for_update ELSE r
               /\ calls' =
                      Append(calls, [fn |-> "get_page_properties",
                                     page_id |-> page.id])
                      \o (CASE failed = "" -> PropertyCalls(page.id, r)
                            [] failed = "get_page_properties" -> <<>>
                            [] failed = "update_page_property" ->
                                   SubSeq(PropertyCalls(page.id, r), 1, 1))
               /\ pc' = IF failed = "" THEN "labels" ELSE "raised"
               /\ err' = IF failed = "" THEN err ELSE "SystemExit"
    /\ UNCHANGED <<html, space_id, page, parent_page_id, convframe>>

\* if labels is not None and len(labels) > 0: update_labels (lines 111-112)
ConvertLabels ==
    /\ fn \in Publishers
    /\ pc = "labels"
    /\ IF args.labels # None /\ Len(args.labels) > 0
       THEN /\ calls' = Append(calls, [fn |-> "update_labels",
                                       page_id |-> page.id,
                                       labels |-> args.labels])
            /\ \E ok \in BOOLEAN :
                   IF ok THEN pc' = "attachments" /\ err' = err
                   ELSE pc' = "raised" /\ err' = "SystemExit"
       ELSE /\ calls' = calls
            /\ pc' = "attachments"
            /\ err' = err
    /\ UNCHANGED <<html, space_id, page, parent_page_id, properties,
                   properties_for_update, convframe>>

\* the uploads of add_attachments (lines 119-132)
AttachmentCalls(pid, files) ==
    [k \in 1..Len(files) |->
        [fn |-> "upload_attachment", page_id |-> pid, file |-> <<files[k]>>,
         comment |-> <<>>]]

\* if attachments is not None and len(attachments) > 0:
\*     self.add_attachments(page.id, attachments) (lines 114-117)
ConvertAttachments ==
    /\ fn \in Publishers
    /\ pc = "attachments"
    /\ \E ok \in BOOLEAN :
           IF ok
           THEN /\ calls' = calls \o AttachmentCalls(page.id, args.attachments)
                /\ pc' = "returned"
                /\ err' = err
           ELSE /\ args.attachments # <<>>
                /\ calls' = calls
                        \o SubSeq(AttachmentCalls(page.id, args.attachments),
                                  1, 1)
                /\ pc' = "raised"
                /\ err' = "HTTPError"
    /\ UNCHANGED <<html, space_id, page, parent_page_id, properties,
                   properties_for_update, convframe>>

NextConvert ==
    \/ ConvertStart
    \/ GetHtmlFromMarkdown
    \/ PlainPasses
    \/ PassRemoveEmojies
    \/ PassAddContents
    \/ ConvertSimulate
    \/ ConvertGetPage
    \/ ConvertDelete
    \/ ConvertGetParentPage
    \/ ConvertCreatePage
    \/ ConvertAddImages
    \/ ConvertAddLocalRefs
    \/ ConvertUpdatePage
    \/ ConvertProperties
    \/ ConvertLabels
    \/ ConvertAttachments

SpecConvert == InitConvert /\ [][NextConvert]_vars


-----------------------------------------------------------------------------
(* Properties of convert *)

\* the operations of the publishing client that convert asks for
ClientOps ==
    {"get_page", "create_page", "update_page", "delete_page",
     "get_page_properties", "update_page_property", "update_labels",
     "upload_attachment"}
ClientCalls == SelectSeq(calls, LAMBDA c : c.fn \in ClientOps)

\* the first call of this operation is the k-th call; 0 when there is none
IndexOf(f) ==
    IF \E k \in 1..Len(calls) : calls[k].fn = f
    THEN CHOOSE k \in 1..Len(calls) :
             calls[k].fn = f /\ \A j \in 1..(k - 1) : calls[j].fn # f
    ELSE 0

\* get_page(title) has answered, and the id of the page it has reported
PageReported ==
    /\ fn = "convert"
    /\ CallsOf("get_page") # <<>>
    /\ "id" \in DOMAIN CallsOf("get_page")[1].returns
ReportedPage == CallsOf("get_page")[1].returns

ConvertEnded == fn = "convert" /\ pc \in {"returned", "raised"}

\* delete mode has met an existing page
DeleteFound ==
    /\ PageReported
    /\ args.delete /\ ~args.simulate
    /\ ReportedPage.id > 0

\* C14: in delete mode (simulate off), when get_page returns an existing
\* page, convert calls delete_page exactly once with that page's id and
\* returns, without any create, update, property, label or attachment call
C14_DeleteCallsDeletePageOnce ==
    DeleteFound /\ ConvertEnded =>
        /\ pc = "returned"
        /\ CallsOf("delete_page")
             = <<[fn |-> "delete_page", page_id |-> ReportedPage.id]>>
        /\ \A k \in 1..Len(calls) :
               calls[k].fn \notin
                   {"create_page", "update_page", "get_page_properties",
                    "update_page_property", "update_labels",
                    "upload_attachment"}

\* what does hold: convert ends with the AttributeError of self.client,
\* having called get_page and nothing else of the client
DeleteRaisesAttributeError ==
    DeleteFound /\ pc # "delete" =>
        /\ pc = "raised" /\ err = "AttributeError"
        /\ Len(ClientCalls) = 1
        /\ CallsOf("delete_page") = <<>>

\* the passes that are calls, in the order of convert_md_to_conf_html for
\* these flags
ExpectedPasses(a) ==
    <<"get_html_from_markdown", "create_table_of_content",
      "convert_info_macros", "convert_github_alerts", "convert_doctoc",
      "convert_comment_block", "convert_code_block">>
    \o (IF a.remove_emojies THEN <<"remove_emojies">> ELSE <<>>)
    \o (IF a.add_contents THEN <<"add_contents">> ELSE <<>>)
    \o <<"process_refs">>

PassNames ==
    {"get_html_from_markdown", "create_table_of_content",
     "convert_info_macros", "convert_github_alerts", "convert_doctoc",
     "convert_comment_block", "convert_code_block", "remove_emojies",
     "add_contents", "process_refs"}
PassCalls ==
    Let(SelectSeq(calls, LAMBDA c : c.fn \in PassNames),
        LAMBDA s : [k \in 1..Len(s) |-> s[k].fn])

\* where convert is once the conversion has returned
AfterConversion ==
    {"converted", "delete", "create_page", "add_images", "add_local_refs",
     "update_page", "properties", "labels", "attachments", "returned"}

\* C15: in simulate mode convert runs the conversion and stops: it calls no
\* operation of the publishing client, whatever the other flags are
C15_SimulateCallsNoClient ==
    fn = "convert" /\ args.simulate =>
        /\ ClientCalls = <<>>
        /\ pc \in AfterConversion =>
               /\ pc \in {"converted", "returned"}
               /\ PassCalls = ExpectedPasses(args)

\* simulate mode has returned with delete, labels, properties and
\* attachments asked for, after converting the document
C15_Witness ==
    /\ fn = "convert" /\ pc = "returned"
    /\ args.simulate /\ args.delete
    /\ args.labels # None /\ args.attachments # <<>>
    /\ PassCalls = ExpectedPasses(args)
    /\ Contains(html, TocZone)
    /\ calls # <<>> /\ ClientCalls = <<>>

\* convert publishes: simulate and delete are off
Publishing == PageReported /\ ~args.simulate /\ ~args.delete

\* C16: with simulate and delete off, when get_page reports no page (id 0)
\* convert calls create_page once and, after it, update_page once with the
\* id of the page create_page returned; when get_page reports a page it
\* never calls create_page and calls update_page once with that page's id
\* and version. No run calls either of them more than once.
C16_CreateThenUpdate ==
    Publishing =>
        /\ Len(CallsOf("create_page")) <= 1
        /\ Len(CallsOf("update_page")) <= 1
        /\ ReportedPage.id > 0 => CallsOf("create_page") = <<>>
        /\ CallsOf("update_page") # <<>> =>
               IF ReportedPage.id = 0
               THEN /\ Len(CallsOf("create_page")) = 1
                    /\ IndexOf("create_page") < IndexOf("update_page")
                    /\ CallsOf("update_page")[1].page_id
                         = CallsOf("create_page")[1].returns.id
               ELSE /\ CallsOf("update_page")[1].page_id = ReportedPage.id
                    /\ CallsOf("update_page")[1].version
                         = ReportedPage.version
        /\ pc = "returned" => Len(CallsOf("update_page")) = 1

\* convert has returned after creating the page and updating it
C16_Witness ==
    /\ Publishing /\ pc = "returned"
    /\ ReportedPage.id = 0
    /\ Len(CallsOf("create_page")) = 1
    /\ CallsOf("create_page")[1].returns = CreatedPage
    /\ Len(CallsOf("update_page")) = 1
    /\ CallsOf("update_page")[1].page_id = CreatedPage.id

\* convert has returned after updating the page that exists
ExistingPageUpdated ==
    /\ Publishing /\ pc = "returned"
    /\ ReportedPage = ExistingPage
    /\ CallsOf("create_page") = <<>>
    /\ CallsOf("update_page")[1].page_id = ExistingPage.id
    /\ CallsOf("update_page")[1].version = ExistingPage.version

IsPrefix(s, t) == Len(s) <= Len(t) /\ s = SubSeq(t, 1, Len(s))

\* the order of the steps of the pipeline, as C19 states it
PassOrder(a) ==
    <<"get_html_from_markdown", "create_table_of_content",
      "convert_github_alerts", "custom_tags", "blockquotes",
      "convert_doctoc", "convert_comment_block", "convert_code_block">>
    \o (IF a.remove_emojies THEN <<"remove_emojies">> ELSE <<>>)
    \o (IF a.add_contents THEN <<"add_contents">> ELSE <<>>)
    \o <<"process_refs", "converted">>

\* from one step of the pipeline control goes to the next one of the order,
\* or out with an exception
NextInOrder ==
    \A k \in 1..(Len(PassOrder(args)) - 1) :
        pc = PassOrder(args)[k] => pc' \in {PassOrder(args)[k + 1], "raised"}

ResolverNames == {"add_local_refs", "process_headers", "process_links"}

\* the calls of the passes so far are the first of the expected ones, all of
\* them once the conversion has returned, and the resolver is called only
\* after the last of them
PassesInOrder ==
    fn = "convert" =>
        /\ IsPrefix(PassCalls, ExpectedPasses(args))
        /\ pc \in AfterConversion => PassCalls = ExpectedPasses(args)
        /\ \A k \in 1..Len(calls) :
               calls[k].fn \in ResolverNames =>
                   /\ IndexOf("process_refs") \in 1..(k - 1)
                   /\ \A j \in k..Len(calls) : calls[j].fn \notin PassNames

\* C19: convert_md_to_conf_html applies each pass once, in the order TOC
\* marker, info macros (GitHub alerts, custom delimiters, heuristic
\* blockquotes, doctoc), comment block, code block, emoji removal and
\* contents when their flags are set, footnotes; the header and link
\* resolver runs only after the pipeline has finished
C19_PassesOnceInOrder ==
    /\ []PassesInOrder
    /\ [][fn = "convert" => NextInOrder]_vars

\* convert has run every pass, both flags set, on a document with a heading
\* and a local link, and has then resolved the link
C19_Witness ==
    /\ fn = "convert" /\ pc = "returned"
    /\ args.remove_emojies /\ args.add_contents
    /\ PassCalls = ExpectedPasses(args)
    /\ Len(PassCalls) = 10
    /\ IndexOf("process_links") > IndexOf("process_refs")
    /\ IndexOf("process_refs") > 0

-----------------------------------------------------------------------------
(* Properties of the heuristic labels, convert_info_macros lines 377-418 *)

\* the label the text of a blockquote body begins with: the label of its
\* first token that is no tag, "" when that token starts with no label
LeadingLabel(quote) ==
    LET s == Strip(quote)
        texts == {k \in 1..Len(s) : s[k] \notin Markup}
    IN  IF texts = {} THEN ""
        ELSE LabelPrefix(s[CHOOSE k \in texts : \A m \in texts : k <= m])

\* the tokens of s that start with a label, in any letter case
LabelTokens(s) == {k \in 1..Len(s) : LabelPrefix(s[k]) # ""}

\* C21: once the heuristic step has run, a blockquote of the input whose
\* leading text does not begin with a label, whatever follows in its first
\* paragraph, is in the html as the default 'info' structured macro with its
\* text unchanged.
C21_LaterLabelIsNoLabel ==
    HeuristicDone =>
        \A j \in 1..Len(quotes) :
            (/\ Contains(html_in, Blockquote(quotes[j]))
             /\ LeadingLabel(quotes[j]) = "")
                => Contains(html, InfoWrapped(quotes[j]))

\* what convert_info_macros does with <p>text <em>Note</em> more</p>: the
\* search "^<.*>Note" finds the label after the later tag, the blockquote
\* becomes the ADF note panel and the first letter of its text is upper-cased
LaterLabelRecognised ==
    /\ HeuristicDone
    /\ Contains(html_in, Blockquote(LaterLabelPara("Note")))
    /\ Contains(html, AdfOpen \o <<P, "Text", " ", "<em>", "Note", "</em>",
                                   " ", "more", PEnd>> \o AdfClose)

\* C22: once the heuristic step has run, the paragraphs put in the macro of
\* a blockquote with a leading label written once, in any letter case and any
\* of the label variants, hold no label and their text starts upper-cased.
C22_LabelNeverSurvives ==
    HeuristicDone =>
        \A j \in 1..Len(quotes) :
            LET label == RecognisedLabel(quotes[j])
                name == CASE label = "Warning" -> "note"
                          [] label = "Success" -> "tip"
                          [] label = "Error" -> "warning"
                          [] OTHER -> "info"
                emitted == IF label = "Note"
                           THEN Wrapped(quotes[j], AdfOpen \o <<P>>,
                                        <<PEnd>> \o AdfClose)
                           ELSE Wrapped(quotes[j], StructuredOpen(name),
                                        StructuredClose)
                macro == Wrapped(quotes[j], <<P>>, <<PEnd>>)
                texts == {k \in 1..Len(macro) :
                             macro[k] \in {"text", "Text", "more", "More"}}
            IN  (/\ Contains(html_in, Blockquote(quotes[j]))
                 /\ LeadingLabel(quotes[j]) # ""
                 /\ Cardinality(LabelTokens(quotes[j])) = 1)
                    => /\ Contains(html, emitted)
                       /\ LabelTokens(macro) = {}
                       /\ texts # {}
                       /\ macro[CHOOSE k \in texts : \A m \in texts : k <= m]
                              \in {"Text", "More"}

\* what convert_info_macros does with <p>note: text</p>: the label is
\* recognised, strip_type removes nothing and upper-cases the label itself
LowerCaseLabelSurvives ==
    /\ HeuristicDone
    /\ Contains(html_in, Blockquote(VariantPara(<<"note", ":", " ">>)))
    /\ Contains(html, AdfOpen \o <<P, "Note", ":", " ", "text", PEnd>>
                      \o AdfClose)

-----------------------------------------------------------------------------
(* Properties of convert_doctoc, lines 427-453 *)

\* C23: the step of convert_info_macros that applies convert_doctoc replaces
\* each doctoc block of the html with the toc macro and keeps everything
\* outside the blocks.
C23_EachDoctocBlockReplaced ==
    [][(fn = "convert_info_macros" /\ pc = "loop" /\ pc' = "returned")
          => /\ Count(html', toc_tag) = Count(html, DocTocBlock)
             /\ Replace(html', toc_tag, <<>>) = Replace(html, DocTocBlock, <<>>)
      ]_vars

\* what convert_doctoc does with two doctoc blocks: one toc macro replaces
\* everything from the first start marker to the last end marker
TwoDoctocBlocksMerged ==
    /\ InfoMacrosReturned
    /\ Count(html_in, DocTocBlock) = 2
    /\ Len(FindAllBlockquotes(html_in)) = 1
    /\ html = toc_tag

-----------------------------------------------------------------------------
(* Properties of the display value of editor mode 1, lines 523-529 *)

\* C24: when process_headers returns in editor mode 1, the first heading of
\* each base key is stored with its text without the tags and the spaces,
\* every other token of the heading kept.
C24_Mode1ValueKeepsText ==
    (fn = "process_headers" /\ pc = "returned" /\ editor_version = 1) =>
        \A j \in 1..Len(headers) :
            Earlier(j) = 0 =>
                /\ BaseKey(j) \in DOMAIN headers_map
                /\ headers_map[BaseKey(j)]
                       = Drop(headers[j], InlineTags \cup {" "})

\* what process_headers stores in mode 1 for the heading <em>A</em>: the
\* greedy "<.+>" runs from the first tag to the last and takes the text
\* between them, the value is empty
TextBetweenTagsDropped ==
    /\ fn = "process_headers" /\ pc = "returned" /\ editor_version = 1
    /\ headers = << <<"<em>", "A", "</em>">> >>
    /\ headers_map[HeaderKey(ref_prefix, headers[1])] = <<>>

-----------------------------------------------------------------------------
(* Properties of the collision branch of process_headers, lines 531-538 *)

\* C29: in editor mode 1 or 2 process_headers raises nothing, and whenever
\* the key of the heading it is about to process is already in the map, the
\* occurrence counter of that key exists.
C29_CollisionBranchHasCounter ==
    (fn = "process_headers" /\ editor_version \in {1, 2}) =>
        /\ err = ""
        /\ (pc = "loop" /\ i < Len(headers))
              => LET key == HeaderKey(ref_prefix, headers[i + 1])
                 IN  key \in DOMAIN headers_map
                         => key \in DOMAIN headers_count

\* what process_headers does with the headings A, A, A-1 and the postfix
\* "-%d": the base key of the third heading is the alternate key of the
\* second, it is in the map without a counter and headers_count[key] raises
CounterMissing ==
    /\ fn = "process_headers" /\ editor_version \in {1, 2}
    /\ pc = "raised" /\ err = "KeyError"
    /\ headers = << <<"A">>, <<"A">>, <<"A", "-", "1">> >>
    /\ HeaderKey(ref_prefix, headers[3]) \in DOMAIN headers_map
    /\ HeaderKey(ref_prefix, headers[3]) \notin DOMAIN headers_count

-----------------------------------------------------------------------------
(* Properties of the delete mode and of the page id, convert lines 80-117 *)

\* C25: a run of convert with delete requested never calls create_page nor
\* update_page, whether get_page has reported a page or none.
C25_DeleteNeverCreatesOrUpdates ==
    (fn = "convert" /\ args.delete) =>
        /\ CallsOf("create_page") = <<>>
        /\ CallsOf("update_page") = <<>>

\* what convert does in delete mode when get_page reports no page: the test
\* of line 83 fails on page.id > 0 and the run goes on to create the page
\* and to update it
DeleteOfMissingPageCreates ==
    /\ fn = "convert" /\ pc = "returned"
    /\ args.delete /\ ~args.simulate
    /\ PageReported /\ ReportedPage.id = 0
    /\ Len(CallsOf("create_page")) = 1
    /\ Len(CallsOf("update_page")) = 1
    /\ CallsOf("delete_page") = <<>>

\* the calls made for one page: they carry a page id
PageScopedOps ==
    {"upload_attachment", "update_page", "update_page_property",
     "update_labels"}

\* C26: no run of convert makes a page-scoped call with the page id 0.
C26_NoCallWithPageIdZero ==
    fn = "convert" =>
        \A k \in 1..Len(calls) :
            calls[k].fn \in PageScopedOps => calls[k].page_id # 0

\* what convert does when create_page returns the PageInfo(0, 0, 0, "") of a
\* failed creation: it goes on and updates the page with id 0
FailedCreateThenUpdate ==
    /\ fn = "convert"
    /\ CallsOf("create_page") # <<>>
    /\ CallsOf("create_page")[1].returns = NoPage
    /\ CallsOf("update_page") # <<>>
    /\ CallsOf("update_page")[1].page_id = 0

-----------------------------------------------------------------------------
(* Properties of the keys get_properties_to_update returns, lines 231-268 *)

\* C28: get_properties_to_update returns at most one entry for a key.
C28_OneEntryPerKey ==
    PropertiesReturned =>
        \A m, n \in 1..Len(properties_for_update) :
            properties_for_update[m].key = properties_for_update[n].key
                => m = n

\* what get_properties_to_update returns when the page has an editor
\* property of another version and a property 'editor' is requested: the
\* editor update and the requested update, both for the existing id and
\* with the same version number
TwoEditorEntries ==
    /\ PropertiesReturned
    /\ Len(properties_for_update) = 2
    /\ properties_for_update[1].key = <<"editor">>
    /\ properties_for_update[2].key = <<"editor">>
    /\ properties_for_update[1].id = properties_for_update[2].id
    /\ properties_for_update[1].version = properties_for_update[2].version
    /\ properties_for_update[1].value = EditorValue(self.version)
    /\ properties_for_update[1].value # properties_for_update[2].value

-----------------------------------------------------------------------------
(* main of the command line (src/md_to_conf/__init__.py, lines 344-470):   *)
(* the options are held in self and args as the arguments of convert are,  *)
(* and the statements after get_page that convert and main share are the   *)
(* actions of convert                                                      *)

\* bool(page) of a PageInfo: a named tuple is true when it has a field
TruthyPage(p) == DOMAIN p # {}

\* --version is an int option: the two documented values and another one
MainVersions == {1, 2, 3}

MainDocs ==
    {JoinLines(<<TitleLine>> \o blocks) :
        blocks \in {<<H2A, <<P>> \o LinkA \o <<PEnd>>>>,
                    <<<<P>> \o ImgPic \o <<PEnd>>, EmojiPara>>,
                    <<PlainPara, NoLinkDef>>}}

MainArgs ==
    {[simulate |-> s, delete |-> d, remove_emojies |-> f,
      add_contents |-> f, labels |-> x.labels,
      properties |-> x.properties, attachments |-> x.attachments] :
        s \in BOOLEAN, d \in BOOLEAN, f \in BOOLEAN,
        x \in {NoExtras, AllExtras}}

InitMain ==
    /\ fn = "main"
    /\ pc = "start"
    /\ err = ""
    /\ self \in [md_source : {"default"}, space_key : {<<"TEST">>},
                 org_name : {<<"test-org">>}, use_ssl : {TRUE},
                 version : MainVersions, title : {None},
                 ancestor : {<<>>, <<"Parent">>}]
    /\ args \in MainArgs
    /\ editor_version = self.version
    /\ NoHeaderArgs
    /\ NoLinkArgs
    /\ i = 0
    /\ html_in \in MainDocs
    /\ html = <<>>
    /\ quotes = <<>>
    /\ refs = <<>>
    /\ space_id = 0
    /\ calls = <<>>
    /\ page = <<>>
    /\ parent_page_id = 0
    /\ properties = <<>>
    /\ properties_for_update = <<>>
    /\ url = <<>>
    /\ first_html = <<>>

\* CONFLUENCE_API_URL, the MarkdownConverter and the title (lines 389-414)
MainStart ==
    /\ fn = "main"
    /\ pc = "start"
    /\ url' = get_confluence_api_url(self.org_name, self.use_ssl)
    /\ title' = IF self.title # None THEN self.title ELSE FileTitle(html_in)
    /\ pc' = "get_html_from_markdown"
    /\ UNCHANGED <<fn, err, editor_version, html_in, html, self, args,
                   space_id, calls, page, parent_page_id, properties,
                   properties_for_update, first_html, mdlocals>>

\* if SIMULATE: sys.exit(0) (lines 424-426)
MainSimulate ==
    /\ fn = "main"
    /\ pc = "converted"
    /\ Simulating(args)
    /\ pc' = "raised"
    /\ err' = "SystemExit"
    /\ UNCHANGED <<html, space_id, calls, page, parent_page_id,
                   properties, properties_for_update, convframe>>

\* if DELETE and page: client.delete_page(page.id); sys.exit(1)
\* (lines 435-437); delete_page raises the HTTPError of raise_for_status
\* when the server refuses (client.py, line 290)
MainDelete ==
    /\ fn = "main"
    /\ pc = "delete"
    /\ args.delete /\ TruthyPage(page)
    /\ calls' = Append(calls, [fn |-> "delete_page", page_id |-> page.id])
    /\ pc' = "raised"
    /\ \E ok \in BOOLEAN : err' = IF ok THEN "SystemExit" ELSE "HTTPError"
    /\ UNCHANGED <<html, space_id, page, parent_page_id, properties,
                   properties_for_update, convframe>>

\* parent_page_id = get_parent_page(client, ANCESTOR) (lines 331-341, 439)
MainGetParentPage ==
    /\ fn = "main"
    /\ pc = "delete"
    /\ ~(args.delete /\ TruthyPage(page))
    /\ IF self.ancestor # <<>>
       THEN \E parent_page \in {ParentPage, NoPage}, ok \in BOOLEAN :
                /\ calls' = Append(calls,
                                   [fn |-> "get_page",
                                    title |-> self.ancestor,
                                    returns |-> Returned(ok, parent_page)])
                /\ IF ok /\ TruthyPage(parent_page)
                   THEN /\ parent_page_id' = parent_page.id
                        /\ pc' = "create_page"
                        /\ err' = err
                   ELSE /\ parent_page_id' = parent_page_id
                        /\ pc' = "raised"
                        /\ err' = "SystemExit"
       ELSE /\ calls' = calls
            /\ parent_page_id' = 0
            /\ pc' = "create_page"
            /\ err' = err
    /\ UNCHANGED <<html, space_id, page, properties, properties_for_update,
                   convframe>>

NextMain ==
    \/ MainStart
    \/ GetHtmlFromMarkdown
    \/ PlainPasses
    \/ PassRemoveEmojies
    \/ PassAddContents
    \/ MainSimulate
    \/ ConvertGetPage
    \/ MainDelete
    \/ MainGetParentPage
    \/ ConvertCreatePage
    \/ ConvertAddImages
    \/ ConvertAddLocalRefs
    \/ ConvertUpdatePage
    \/ ConvertProperties
    \/ ConvertLabels
    \/ ConvertAttachments

SpecMain == InitMain /\ [][NextMain]_vars

-----------------------------------------------------------------------------
(* Properties of main *)

\* get_page has been asked for the ancestor and has reported no page
AncestorMissing ==
    /\ self.ancestor # <<>>
    /\ \E k \in 1..Len(calls) :
           /\ calls[k].fn = "get_page"
           /\ calls[k].title = self.ancestor
           /\ calls[k].returns = NoPage

\* C27: in a run of main, once get_page has reported no page for the given
\* ancestor, main has exited and no page is created nor updated.
C27_MissingAncestorStopsMain ==
    (fn = "main" /\ AncestorMissing) =>
        /\ pc = "raised" /\ err = "SystemExit"
        /\ CallsOf("create_page") = <<>>
        /\ CallsOf("update_page") = <<>>

\* what main does when the ancestor is missing: get_page gives the
\* PageInfo(0, 0, 0, "") of a missing page, 'if parent_page:' is true of it,
\* and the page is created under the parent id 0
CreatedUnderParentZero ==
    /\ fn = "main" /\ AncestorMissing
    /\ pc = "returned"
    /\ Len(CallsOf("create_page")) = 1
    /\ CallsOf("create_page")[1].parent_id = 0
    /\ Len(CallsOf("update_page")) = 1

\* C30: in a run of main with any editor version, once add_local_refs has
\* been called only a failure of a client call ends the run: process_headers
\* and process_links raise nothing.
C30_EveryVersionResolves ==
    (fn = "main" /\ CallsOf("add_local_refs") # <<>>) =>
        (pc = "raised" => err \in {"SystemExit", "HTTPError"})

\* what main does with --version 3 and a document with a heading: the page
\* is created, process_headers reads a value that neither 'if' has assigned
\* and the run ends before update_page
VersionThreeFailsAfterCreate ==
    /\ fn = "main" /\ self.version = 3
    /\ pc = "raised" /\ err = "UnboundLocalError"
    /\ Len(CallsOf("create_page")) = 1
    /\ CallsOf("create_page")[1].returns = CreatedPage
    /\ CallsOf("process_headers") # <<>>
    /\ CallsOf("process_links") = <<>>
    /\ CallsOf("update_page") = <<>>

=============================================================================
